---- MODULE Spec2Model ----
(***************************************************************************)
(* Model of the coralswap-sdk core: AMM quote math (SwapModule), off-chain *)
(* path finding and route selection (RouterModule).                        *)
(*                                                                         *)
(* Amounts and reserves are JavaScript bigint values (arbitrary precision, *)
(* division truncating toward zero, division by zero raising RangeError).  *)
(* A call that throws is modelled by a result record with ok = FALSE and   *)
(* the thrown error in err.                                                *)
(***************************************************************************)
EXTENDS Integers, Sequences, FiniteSets, TLC

VARIABLES
    pools,      \* the factory's pairs, in getAllPairs order: the pool oracle
    mPc,        \* swap-math call: "idle" or "done"
    mFn,        \* which math function was called
    mArgs,      \* its arguments
    mRes,       \* result of the (first) call
    mRes2,      \* result of the second call of a round trip
    qPc,        \* SwapModule.getQuote call: "idle" or "done"
    qReq,       \* its request and the client's configured default slippage
    qRes,       \* the quote it returned or the error it threw
    pPc,        \* findAllPaths call: "idle" or "done"
    pArgs,      \* its arguments start, end, graph, maxHops
    pRes,       \* the paths it returned
    rPc,        \* findOptimalPath: "idle", "quoting" or "done"
    rReq,       \* its arguments, and the pools whose getTokens read fails
    rGraph,     \* the token graph it built
    rPaths,     \* the candidate paths, in enumeration order
    rIdx,       \* index of the candidate the loop is at
    rBest,      \* bestPath
    rLog,       \* the quote calls made so far with their outcomes
    rResult,    \* what findOptimalPath returned or threw
    wPc,        \* withRetry: "idle", "calling", "delaying" or "done"
    wVariant,   \* which withRetry runs: utils/ledger.ts or utils/retry.ts
    wOpts,      \* its options, as passed
    wCfg,       \* maxRetries and the resolved baseDelay, maxDelay, multiplier
    wAttempt,   \* attempt
    wCalls,     \* invocations of the wrapped operation so far
    wRaised,    \* the errors the wrapped operation raised, in order
    wLastError, \* lastError
    wDelays,    \* the delays awaited so far
    wResult,    \* pending, resolved, or rejected with an error
    tPc,        \* TransactionPoller.poll: "idle", "probing", "waiting" or "done"
    tHash,      \* txHash
    tOpts,      \* its options, as passed
    tCfg,       \* the resolved strategy, interval, maxAttempts, backoffFactor, maxInterval
    tAttempt,   \* attempt
    tInterval,  \* currentInterval
    tProbes,    \* getTransaction calls made so far
    tLast,      \* outcome of the latest probe
    tNonTerminal, \* probes so far that did not report SUCCESS or FAILED
    tAllRejected, \* whether every probe so far rejected
    tWaits,     \* the waits started so far, in order
    tResult,    \* what poll returned
    sPc,        \* submitTransaction: the step it is at, "idle" or "done"
    sCfg,       \* source given, config.publicKey given, kind of signer
    sKeyCache,  \* whether _publicKeyCache is set
    sCalls,     \* the calls to signer, server and poller made so far
    sSim,       \* outcome of the simulation
    sSend,      \* status sendTransaction returned
    sRaised,    \* the value a step raised
    sReturns,   \* results produced so far
    sResult,    \* what submitTransaction returned
    ePc,        \* mapError: "idle" or "done"
    eErr,       \* the value handed to mapError
    eRes,       \* mapError(eErr)
    eRes2,      \* mapError(mapError(eErr))
    fNetwork,   \* client.network
    fChain,     \* the pairs of the factory contract of each network
    fFactory,   \* network of the FactoryClient singleton, "" for null
    fRouter,    \* network of the RouterClient singleton, "" for null
    fModule,    \* whether the FactoryModule exists
    fCache,     \* FactoryModule.cache: key -> address, Absent when not held
    fPending,   \* lookups waiting for getPair
    fLookups,   \* lookups made so far
    fOps,       \* setNetwork, clearCache and preLoadPairs calls so far
    fLog,       \* history of calls and returns
    xPc,        \* Fraction call: "idle" or "done"
    xOp,        \* the Fraction method called
    xThis,      \* the fraction the method is called on
    xOther,     \* the other operand
    xDigits,    \* significantDigits
    xRounding,  \* the rounding mode
    xRes,       \* the Fraction returned
    xStr,       \* the string returned
    nPc,        \* submitTransaction: the await it is suspended at, or "idle"
    nNetwork,   \* network of client.server
    nPoller,    \* network of the server the poller holds, "" for no poller
    nId,        \* submissions started
    nHash,      \* the hash sendTransaction returned
    nAttempt,   \* attempt of the poll
    nSwitches,  \* setNetwork calls so far
    nLog        \* calls issued, answers and results

mathVars == <<mPc, mFn, mArgs, mRes, mRes2>>
quoteVars == <<qPc, qReq, qRes>>
pathVars == <<pPc, pArgs, pRes>>
routerVars == <<rPc, rReq, rGraph, rPaths, rIdx, rBest, rLog, rResult>>
retryVars == <<wPc, wVariant, wOpts, wCfg, wAttempt, wCalls, wRaised, wLastError,
               wDelays, wResult>>
fracVars == <<xPc, xOp, xThis, xOther, xDigits, xRounding, xRes, xStr>>
netVars == <<nPc, nNetwork, nPoller, nId, nHash, nAttempt, nSwitches, nLog>>
cacheVars == <<fNetwork, fChain, fFactory, fRouter, fModule, fCache, fPending, fLookups,
               fOps, fLog>>
errorVars == <<ePc, eErr, eRes, eRes2>>
submitVars == <<sPc, sCfg, sKeyCache, sCalls, sSim, sSend, sRaised, sReturns, sResult>>
pollVars == <<tPc, tHash, tOpts, tCfg, tAttempt, tInterval, tProbes, tLast,
              tNonTerminal, tAllRejected, tWaits, tResult>>

----------------------------------------------------------------------------
(* Bounds of the model *)

MaxAmount == 12
MaxReserve == 12

(* Fee values (basis points) the pool oracle reports: the ends of the      *)
(* valid range 0..10000 and values in between.                             *)
FeeBpsSet == {0, 1, 30, 100, 5000, 9999, 10000}

----------------------------------------------------------------------------
(* Program constants *)

BPS_DENOMINATOR == 10000

----------------------------------------------------------------------------
(* Results of calls that may throw *)

Ok(v) == [ok |-> TRUE, val |-> v, err |-> "none"]
Err(e) == [ok |-> FALSE, val |-> 0, err |-> e]
NotCalled == [ok |-> FALSE, val |-> 0, err |-> "not called"]

Abs(x) == IF x < 0 THEN -x ELSE x

(* bigint division: truncates toward zero. The caller checks b # 0. *)
BigIntDiv(a, b) ==
    LET q == Abs(a) \div Abs(b)
    IN  IF (a < 0) # (b < 0) THEN -q ELSE q

----------------------------------------------------------------------------
(* SwapModule.getAmountOut / getAmountIn *)

getAmountOut_RoundsUp(amountIn, reserveIn, reserveOut, feeBps) ==
    IF amountIn <= 0 THEN Err("Insufficient input amount")
    ELSE IF reserveIn <= 0 \/ reserveOut <= 0 THEN Err("Insufficient liquidity")
    ELSE
        LET feeFactor == 10000 - feeBps
            amountInWithFee == amountIn * feeFactor
            numerator == amountInWithFee * reserveOut
            denominator == reserveIn * 10000 + amountInWithFee
        IN  IF denominator = 0 THEN Err("RangeError: Division by zero")
            ELSE Ok(BigIntDiv(numerator + denominator - 1, denominator))

getAmountOut_ChecksSwapped(amountIn, reserveIn, reserveOut, feeBps) ==
    IF reserveIn <= 0 \/ reserveOut <= 0 THEN Err("Insufficient liquidity")
    ELSE IF amountIn <= 0 THEN Err("Insufficient input amount")
    ELSE
        LET feeFactor == 10000 - feeBps
            amountInWithFee == amountIn * feeFactor
            numerator == amountInWithFee * reserveOut
            denominator == reserveIn * 10000 + amountInWithFee
        IN  IF denominator = 0 THEN Err("RangeError: Division by zero")
            ELSE Ok(BigIntDiv(numerator, denominator))

getAmountOut_FeeOnReserve(amountIn, reserveIn, reserveOut, feeBps) ==
    IF amountIn <= 0 THEN Err("Insufficient input amount")
    ELSE IF reserveIn <= 0 \/ reserveOut <= 0 THEN Err("Insufficient liquidity")
    ELSE
        LET feeFactor == 10000 - feeBps
            amountInWithFee == amountIn * feeFactor
            numerator == amountInWithFee * reserveOut
            denominator == reserveIn * feeFactor + amountInWithFee
        IN  IF denominator = 0 THEN Err("RangeError: Division by zero")
            ELSE Ok(BigIntDiv(numerator, denominator))

getAmountOut(amountIn, reserveIn, reserveOut, feeBps) ==
    IF amountIn <= 0 THEN Err("Insufficient input amount")
    ELSE IF reserveIn <= 0 \/ reserveOut <= 0 THEN Err("Insufficient liquidity")
    ELSE
        LET feeFactor == 10000 - feeBps
            amountInWithFee == amountIn * feeFactor
            numerator == amountInWithFee * reserveOut
            denominator == reserveIn * 10000 + amountInWithFee
        IN  IF denominator = 0 THEN Err("RangeError: Division by zero")
            ELSE Ok(BigIntDiv(numerator, denominator))

getAmountIn_NoCeilingBias(amountOut, reserveIn, reserveOut, feeBps) ==
    IF amountOut <= 0 THEN Err("Insufficient output amount")
    ELSE IF reserveIn <= 0 \/ reserveOut <= 0 THEN Err("Insufficient liquidity")
    ELSE IF amountOut >= reserveOut THEN Err("Insufficient reserve for output")
    ELSE
        LET feeFactor == 10000 - feeBps
            numerator == reserveIn * amountOut * 10000
            denominator == (reserveOut - amountOut) * feeFactor
        IN  IF denominator = 0 THEN Err("RangeError: Division by zero")
            ELSE Ok(BigIntDiv(numerator, denominator))

getAmountIn_StrictReserveCheck(amountOut, reserveIn, reserveOut, feeBps) ==
    IF amountOut <= 0 THEN Err("Insufficient output amount")
    ELSE IF reserveIn <= 0 \/ reserveOut <= 0 THEN Err("Insufficient liquidity")
    ELSE IF amountOut > reserveOut THEN Err("Insufficient reserve for output")
    ELSE
        LET feeFactor == 10000 - feeBps
            numerator == reserveIn * amountOut * 10000
            denominator == (reserveOut - amountOut) * feeFactor
        IN  IF denominator = 0 THEN Err("RangeError: Division by zero")
            ELSE Ok(BigIntDiv(numerator, denominator) + 1)

getAmountIn(amountOut, reserveIn, reserveOut, feeBps) ==
    IF amountOut <= 0 THEN Err("Insufficient output amount")
    ELSE IF reserveIn <= 0 \/ reserveOut <= 0 THEN Err("Insufficient liquidity")
    ELSE IF amountOut >= reserveOut THEN Err("Insufficient reserve for output")
    ELSE
        LET feeFactor == 10000 - feeBps
            numerator == reserveIn * amountOut * 10000
            denominator == (reserveOut - amountOut) * feeFactor
        IN  IF denominator = 0 THEN Err("RangeError: Division by zero")
            ELSE Ok(BigIntDiv(numerator, denominator) + 1)

----------------------------------------------------------------------------
(* Calls of the math functions on bounded inputs *)

MathArgs ==
    [amount : -1..MaxAmount, reserveIn : -1..MaxReserve,
     reserveOut : -1..MaxReserve, feeBps : FeeBpsSet]

NoArgs == [amount |-> 0, reserveIn |-> 0, reserveOut |-> 0, feeBps |-> 0]

MathInit ==
    /\ mPc = "idle"
    /\ mFn = "none"
    /\ mArgs = NoArgs
    /\ mRes = NotCalled
    /\ mRes2 = NotCalled

CallGetAmountOut ==
    /\ mPc = "idle"
    /\ \E a \in MathArgs :
        /\ mArgs' = a
        /\ mRes' = getAmountOut(a.amount, a.reserveIn, a.reserveOut, a.feeBps)
    /\ mFn' = "getAmountOut"
    /\ mPc' = "done"
    /\ mRes2' = NotCalled
    /\ UNCHANGED <<pollVars, retryVars, pools, quoteVars, pathVars, routerVars, submitVars, errorVars, cacheVars, fracVars, netVars>>

CallGetAmountIn ==
    /\ mPc = "idle"
    /\ \E a \in MathArgs :
        /\ mArgs' = a
        /\ mRes' = getAmountIn(a.amount, a.reserveIn, a.reserveOut, a.feeBps)
    /\ mFn' = "getAmountIn"
    /\ mPc' = "done"
    /\ mRes2' = NotCalled
    /\ UNCHANGED <<pollVars, retryVars, pools, quoteVars, pathVars, routerVars, submitVars, errorVars, cacheVars, fracVars, netVars>>

(* requiredIn = getAmountIn(y, ...); actualOut = getAmountOut(requiredIn, ...) *)
CallRoundTrip ==
    /\ mPc = "idle"
    /\ \E a \in MathArgs :
        LET requiredIn == getAmountIn(a.amount, a.reserveIn, a.reserveOut, a.feeBps)
        IN  /\ mArgs' = a
            /\ mRes' = requiredIn
            /\ mRes2' = IF requiredIn.ok
                        THEN getAmountOut(requiredIn.val, a.reserveIn, a.reserveOut, a.feeBps)
                        ELSE NotCalled
    /\ mFn' = "roundTrip"
    /\ mPc' = "done"
    /\ UNCHANGED <<pollVars, retryVars, pools, quoteVars, pathVars, routerVars, submitVars, errorVars, cacheVars, fracVars, netVars>>

----------------------------------------------------------------------------
(* The pool oracle: tokens, pools and the lists getAllPairs may return *)

(* Token addresses T_A .. T_E; the order of the numbers is the order of    *)
(* the address strings.                                                    *)
Tokens == {1, 2, 3, 4, 5}

(* The tokens requests and pools of the route selector use (T_A .. T_D). *)
RouterTokens == {1, 2, 3, 4}

(* Reserves and dynamic fee of a pool: empty, shallow, deep. *)
PoolShapes ==
    { [reserve0 |-> 0,   reserve1 |-> 0,   fee |-> 30],
      [reserve0 |-> 10,  reserve1 |-> 10,  fee |-> 30],
      [reserve0 |-> 100, reserve1 |-> 100, fee |-> 30] }

(* Shapes for single quotes: also a skewed pool without fee and a pool     *)
(* whose fee is 100%.                                                      *)
QuotePoolShapes ==
    PoolShapes \cup
    { [reserve0 |-> 10,  reserve1 |-> 100, fee |-> 0],
      [reserve0 |-> 100, reserve1 |-> 100, fee |-> 10000] }

MaxPools == 3
MaxQuotePools == 1
MaxPathPools == 5

TokenPairs(tokens) == {tp \in tokens \X tokens : tp[1] < tp[2]}

Pool(tp, shape) ==
    [token0 |-> tp[1], token1 |-> tp[2],
     reserve0 |-> shape.reserve0, reserve1 |-> shape.reserve1, fee |-> shape.fee]

RECURSIVE SortedPairs(_)
SortedPairs(S) ==
    IF S = {} THEN <<>>
    ELSE LET least == CHOOSE tp \in S :
                        \A o \in S : tp[1] < o[1] \/ (tp[1] = o[1] /\ tp[2] <= o[2])
         IN  <<least>> \o SortedPairs(S \ {least})

Reverse(seq) == [i \in 1..Len(seq) |-> seq[Len(seq) + 1 - i]]

(* The pair lists: at most maxPools pools, one per token pair, listed in   *)
(* ascending order of their token pairs or, with bothOrders, also in       *)
(* descending order.                                                       *)
PoolLists(tokens, maxPools, shapes, bothOrders) ==
    UNION { LET asc == SortedPairs(S)
            IN  { [i \in 1..Len(order) |-> Pool(order[i], sh[i])] :
                    order \in IF bothOrders THEN {asc, Reverse(asc)} ELSE {asc},
                    sh \in [1..Len(asc) -> shapes] }
          : S \in {T \in SUBSET TokenPairs(tokens) : Cardinality(T) <= maxPools} }

(* factory.getPair(t0, t1) through client.getPairAddress: the address      *)
(* (index) of the pool of the unordered pair, 0 for null.                  *)
getPairAddress(tokenA, tokenB) ==
    LET hits == {i \in 1..Len(pools) :
                    \/ pools[i].token0 = tokenA /\ pools[i].token1 = tokenB
                    \/ pools[i].token0 = tokenB /\ pools[i].token1 = tokenA}
    IN  IF hits = {} THEN 0 ELSE CHOOSE i \in hits : TRUE

----------------------------------------------------------------------------
(* SwapModule.getQuote *)

TradeTypes == {"EXACT_IN", "EXACT_OUT"}

(* DEFAULTS.slippageBps *)
DEFAULTS_slippageBps == 50

(* Slippage tolerances in basis points, within the documented 0..10000. *)
SlippageSet == {0, 50, 5000, 10000}

(* An optional value: <<>> is undefined, <<v>> is v. *)
Optional(S) == {<<>>} \cup {<<v>> : v \in S}

(* a ?? b *)
NullishOr_TreatsZeroAsMissing(opt, default) ==
    IF opt = <<>> \/ opt = <<0>> THEN default ELSE <<opt[1]>>

NullishOr(opt, default) == IF opt = <<>> THEN default ELSE opt

NoQuote ==
    [tokenIn |-> 0, tokenOut |-> 0, amountIn |-> 0, amountOut |-> 0,
     amountOutMin |-> 0, priceImpactBps |-> 0, feeBps |-> 0, feeAmount |-> 0,
     path |-> <<>>, hops |-> <<>>]

QOk(q) == [ok |-> TRUE, quote |-> q, err |-> "none"]
QErr(e) == [ok |-> FALSE, quote |-> NoQuote, err |-> e]
QNotCalled == [ok |-> FALSE, quote |-> NoQuote, err |-> "not called"]

(* The classes of errors.ts: CoralSwapSDKError and its subclasses *)
SDKErrorClasses ==
    { "CoralSwapSDKError", "NetworkError", "RpcError", "SimulationError",
      "TransactionError", "DeadlineError", "SlippageError",
      "InsufficientLiquidityError", "PairNotFoundError", "ValidationError",
      "FlashLoanError", "CircuitBreakerError", "SignerError" }

(* The constructor behind each failure of getQuote: every throw statement  *)
(* of getQuote, getAmountOut, getAmountIn and the pair reads is            *)
(* `throw new Error(message)`; the bigint division raises a RangeError.    *)
ThrownClass(message) ==
    CASE message = "No pair found" -> "Error"
      [] message = "Failed to read reserves" -> "Error"
      [] message = "Insufficient input amount" -> "Error"
      [] message = "Insufficient output amount" -> "Error"
      [] message = "Insufficient liquidity" -> "Error"
      [] message = "Insufficient reserve for output" -> "Error"
      [] message = "RangeError: Division by zero" -> "RangeError"

calculatePriceImpact_ZeroForDust(amountIn, amountOut, reserveIn, reserveOut) ==
    IF reserveIn = 0 \/ reserveOut = 0 THEN 10000
    ELSE LET idealOut == BigIntDiv(amountIn * reserveOut, reserveIn)
         IN  IF idealOut = 0 THEN 0
             ELSE BigIntDiv((idealOut - amountOut) * 10000, idealOut)

calculatePriceImpact(amountIn, amountOut, reserveIn, reserveOut) ==
    IF reserveIn = 0 \/ reserveOut = 0 THEN 10000
    ELSE LET idealOut == BigIntDiv(amountIn * reserveOut, reserveIn)
         IN  IF idealOut = 0 THEN 10000
             ELSE BigIntDiv((idealOut - amountOut) * 10000, idealOut)

(* The quote of one pool for a request [tokenIn, tokenOut, amount,         *)
(* tradeType, slippageBps]; configSlippage is client.config                *)
(* .defaultSlippageBps; rpcOk tells whether the pool reads succeed. The    *)
(* deadline (wall clock) is left out of the quote; hops is empty for a     *)
(* single-pool quote.                                                      *)
getQuote(req, configSlippage, rpcOk) ==
    LET pairAddress == getPairAddress(req.tokenIn, req.tokenOut)
    IN  IF pairAddress = 0 THEN QErr("No pair found")
        ELSE IF ~rpcOk THEN QErr("Failed to read reserves")
        ELSE
        LET pair == pools[pairAddress]
            isToken0In == pair.token0 = req.tokenIn
            reserveIn == IF isToken0In THEN pair.reserve0 ELSE pair.reserve1
            reserveOut == IF isToken0In THEN pair.reserve1 ELSE pair.reserve0
            dynamicFee == pair.fee
            computed == IF req.tradeType = "EXACT_IN"
                        THEN getAmountOut(req.amount, reserveIn, reserveOut, dynamicFee)
                        ELSE getAmountIn(req.amount, reserveIn, reserveOut, dynamicFee)
        IN  IF ~computed.ok THEN QErr(computed.err)
            ELSE
            LET amountIn == IF req.tradeType = "EXACT_IN" THEN req.amount ELSE computed.val
                amountOut == IF req.tradeType = "EXACT_IN" THEN computed.val ELSE req.amount
                slippageBps ==
                    NullishOr(NullishOr(req.slippageBps, configSlippage),
                              <<DEFAULTS_slippageBps>>)[1]
                amountOutMin ==
                    amountOut - BigIntDiv(amountOut * slippageBps, BPS_DENOMINATOR)
            IN  QOk([tokenIn |-> req.tokenIn,
                     tokenOut |-> req.tokenOut,
                     amountIn |-> amountIn,
                     amountOut |-> amountOut,
                     amountOutMin |-> amountOutMin,
                     priceImpactBps |->
                        calculatePriceImpact(amountIn, amountOut, reserveIn, reserveOut),
                     feeBps |-> dynamicFee,
                     feeAmount |-> BigIntDiv(amountIn * dynamicFee, BPS_DENOMINATOR),
                     path |-> <<req.tokenIn, req.tokenOut>>,
                     hops |-> <<>>])

QuoteTokens == {1, 2, 3}
QuoteAmounts == {0, 1, 5, 10}

QuoteRequests ==
    [tokenIn : QuoteTokens, tokenOut : QuoteTokens, amount : QuoteAmounts,
     tradeType : TradeTypes, slippageBps : Optional(SlippageSet),
     configSlippage : Optional({2000})]

NoRequest ==
    [tokenIn |-> 0, tokenOut |-> 0, amount |-> 0, tradeType |-> "none",
     slippageBps |-> <<>>, configSlippage |-> <<>>]

QuoteInit ==
    /\ qPc = "idle"
    /\ qReq = NoRequest
    /\ qRes = QNotCalled

CallGetQuote ==
    /\ qPc = "idle"
    /\ \E req \in QuoteRequests, rpcOk \in BOOLEAN :
        /\ qReq' = req
        /\ qRes' = getQuote(req, req.configSlippage, rpcOk)
    /\ qPc' = "done"
    /\ UNCHANGED <<pollVars, retryVars, pools, mathVars, pathVars, routerVars, submitVars, errorVars, cacheVars, fracVars, netVars>>

----------------------------------------------------------------------------
(* RouterModule.buildTokenGraph and RouterModule.findAllPaths *)

Includes(seq, x) == \E i \in 1..Len(seq) : seq[i] = x

EmptyGraph == [t \in Tokens |-> <<>>]

(* graph[a].push(b) unless graph[a].includes(b) *)
AddEdge(graph, a, b) ==
    IF Includes(graph[a], b) THEN graph
    ELSE [graph EXCEPT ![a] = Append(@, b)]

(* The adjacency lists built from the pairs in list order; a pair whose    *)
(* getTokens read fails (its index is in unreadable) yields null and is    *)
(* skipped. A token without an entry has the empty list (graph[t] || []).  *)
RECURSIVE buildTokenGraphFrom(_, _, _)
buildTokenGraphFrom(i, graph, unreadable) ==
    IF i > Len(pools) THEN graph
    ELSE IF i \in unreadable THEN buildTokenGraphFrom(i + 1, graph, unreadable)
    ELSE buildTokenGraphFrom(
            i + 1,
            AddEdge(AddEdge(graph, pools[i].token0, pools[i].token1),
                    pools[i].token1, pools[i].token0),
            unreadable)

buildTokenGraph_ReadsAll(unreadable) == buildTokenGraphFrom(1, EmptyGraph, {})

buildTokenGraph(unreadable) == buildTokenGraphFrom(1, EmptyGraph, unreadable)

(* [...path, neighbor] for every neighbor not yet in path, in list order *)
RECURSIVE Extensions_Revisits(_, _, _)
Extensions_Revisits(path, neighbors, i) ==
    IF i > Len(neighbors) THEN <<>>
    ELSE <<Append(path, neighbors[i])>> \o Extensions_Revisits(path, neighbors, i + 1)

RECURSIVE Extensions(_, _, _)
Extensions(path, neighbors, i) ==
    IF i > Len(neighbors) THEN <<>>
    ELSE (IF Includes(path, neighbors[i]) THEN <<>>
          ELSE <<Append(path, neighbors[i])>>)
         \o Extensions(path, neighbors, i + 1)

(* The while loop over the queue; an entry's current token is the last     *)
(* token of its path.                                                      *)
RECURSIVE PathSearch_PrunesEarly(_, _, _, _, _)
PathSearch_PrunesEarly(queue, paths, end, graph, maxHops) ==
    IF queue = <<>> THEN paths
    ELSE
        LET path == Head(queue)
            current == path[Len(path)]
        IN  IF current = end
            THEN PathSearch_PrunesEarly(Tail(queue),
                            IF Len(path) > 1 THEN Append(paths, path) ELSE paths,
                            end, graph, maxHops)
            ELSE IF Len(path) >= maxHops
            THEN PathSearch_PrunesEarly(Tail(queue), paths, end, graph, maxHops)
            ELSE PathSearch_PrunesEarly(Tail(queue) \o Extensions(path, graph[current], 1),
                            paths, end, graph, maxHops)

RECURSIVE PathSearch(_, _, _, _, _)
PathSearch(queue, paths, end, graph, maxHops) ==
    IF queue = <<>> THEN paths
    ELSE
        LET path == Head(queue)
            current == path[Len(path)]
        IN  IF current = end
            THEN PathSearch(Tail(queue),
                            IF Len(path) > 1 THEN Append(paths, path) ELSE paths,
                            end, graph, maxHops)
            ELSE IF Len(path) > maxHops
            THEN PathSearch(Tail(queue), paths, end, graph, maxHops)
            ELSE PathSearch(Tail(queue) \o Extensions(path, graph[current], 1),
                            paths, end, graph, maxHops)

findAllPaths_PrunesEarly(start, end, graph, maxHops) ==
    PathSearch_PrunesEarly(<<(<<start>>)>>, <<>>, end, graph, maxHops)

findAllPaths(start, end, graph, maxHops) ==
    PathSearch(<<(<<start>>)>>, <<>>, end, graph, maxHops)

MaxHopsArg == 3

NoPathArgs == [start |-> 0, end |-> 0, graph |-> EmptyGraph, maxHops |-> 0]

PathsInit ==
    /\ pPc = "idle"
    /\ pArgs = NoPathArgs
    /\ pRes = <<>>

CallFindAllPaths ==
    /\ pPc = "idle"
    /\ \E start \in Tokens, end \in Tokens, maxHops \in 0..MaxHopsArg :
        \E graph \in {buildTokenGraph({})} :
            /\ pArgs' = [start |-> start, end |-> end, graph |-> graph,
                         maxHops |-> maxHops]
            /\ pRes' = findAllPaths(start, end, graph, maxHops)
    /\ pPc' = "done"
    /\ UNCHANGED <<pollVars, retryVars, pools, mathVars, quoteVars, routerVars, submitVars, errorVars, cacheVars, fracVars, netVars>>

----------------------------------------------------------------------------
(* SwapModule.getMultiHopQuote: a chained exact-input quote. Every hop is  *)
(* quoted like a single-pool quote, its output is the next hop's input;    *)
(* the quote fails when a hop fails or when the trade type is not          *)
(* EXACT_IN. The aggregate fee and price impact are the sums over the      *)
(* hops.                                                                   *)

Hop(q) ==
    [tokenIn |-> q.tokenIn, tokenOut |-> q.tokenOut, amountIn |-> q.amountIn,
     amountOut |-> q.amountOut, feeBps |-> q.feeBps, feeAmount |-> q.feeAmount,
     priceImpactBps |-> q.priceImpactBps]

RECURSIVE SumOver(_, _)
SumOver(hops, field) ==
    IF hops = <<>> THEN 0 ELSE hops[1][field] + SumOver(Tail(hops), field)

RECURSIVE HopChain(_, _, _, _, _, _)
HopChain(path, i, amountIn, hops, configSlippage, rpcOk) ==
    IF i = Len(path)
    THEN QOk([tokenIn |-> path[1],
              tokenOut |-> path[Len(path)],
              amountIn |-> hops[1].amountIn,
              amountOut |-> amountIn,
              amountOutMin |->
                  amountIn - BigIntDiv(
                      amountIn * NullishOr(configSlippage, <<DEFAULTS_slippageBps>>)[1],
                      BPS_DENOMINATOR),
              priceImpactBps |-> SumOver(hops, "priceImpactBps"),
              feeBps |-> SumOver(hops, "feeBps"),
              feeAmount |-> SumOver(hops, "feeAmount"),
              path |-> path,
              hops |-> hops])
    ELSE
        LET q == getQuote([tokenIn |-> path[i], tokenOut |-> path[i + 1],
                           amount |-> amountIn, tradeType |-> "EXACT_IN",
                           slippageBps |-> <<>>],
                          configSlippage, rpcOk)
        IN  IF ~q.ok THEN QErr(q.err)
            ELSE HopChain(path, i + 1, q.quote.amountOut,
                          Append(hops, Hop(q.quote)), configSlippage, rpcOk)

getMultiHopQuote(path, amount, tradeType, configSlippage, rpcOk) ==
    IF tradeType # "EXACT_IN" THEN QErr("ValidationError")
    ELSE HopChain(path, 1, amount, <<>>, configSlippage, rpcOk)

----------------------------------------------------------------------------
(* RouterModule.findOptimalPath *)

(* The hop limit findOptimalPath passes to findAllPaths. *)
ROUTER_MAX_HOPS == 3

RouterAmounts == {5, 10}

MaxReadFailures == 1

NoBest == [found |-> FALSE, path |-> <<>>, quote |-> NoQuote]
Best(path, quote) == [found |-> TRUE, path |-> path, quote |-> quote]

RPending == [kind |-> "pending", path |-> <<>>, quote |-> NoQuote, err |-> "none"]
RNull == [kind |-> "null", path |-> <<>>, quote |-> NoQuote, err |-> "none"]
RThrow(e) == [kind |-> "throw", path |-> <<>>, quote |-> NoQuote, err |-> e]
RReturn(best) ==
    IF best.found
    THEN [kind |-> "path", path |-> best.path, quote |-> best.quote, err |-> "none"]
    ELSE RNull

NoRouterRequest ==
    [tokenIn |-> 0, tokenOut |-> 0, amount |-> 0, tradeType |-> "none", unreadable |-> {}]

RouterInit ==
    /\ rPc = "idle"
    /\ rReq = NoRouterRequest
    /\ rGraph = EmptyGraph
    /\ rPaths = <<>>
    /\ rIdx = 0
    /\ rBest = NoBest
    /\ rLog = <<>>
    /\ rResult = RPending

(* The entry of findOptimalPath up to the first quote: the trade type      *)
(* check, getAllPairs (pairsOk tells whether it succeeds), the token graph *)
(* and the candidate paths.                                                *)
FindOptimalPath_NoTradeTypeCheck(tokenIn, tokenOut, amount, tradeType, pairsOk, unreadable) ==
    /\ rPc = "idle"
    /\ rReq' = [tokenIn |-> tokenIn, tokenOut |-> tokenOut, amount |-> amount,
                tradeType |-> tradeType, unreadable |-> unreadable]
    /\ rBest' = NoBest
    /\ rLog' = <<>>
    /\ IF ~pairsOk
       THEN /\ rResult' = RThrow("getAllPairs failed")
            /\ rPc' = "done"
            /\ UNCHANGED <<rGraph, rPaths, rIdx>>
       ELSE \E tokenGraph \in {buildTokenGraph(unreadable)} :
            \E paths \in {findAllPaths(tokenIn, tokenOut, tokenGraph, ROUTER_MAX_HOPS)} :
                /\ rGraph' = tokenGraph
                /\ rPaths' = paths
                /\ IF Len(paths) = 0
                   THEN rResult' = RNull /\ rPc' = "done" /\ UNCHANGED rIdx
                   ELSE rResult' = RPending /\ rPc' = "quoting" /\ rIdx' = 1
    /\ UNCHANGED <<pollVars, retryVars, pools, mathVars, quoteVars, pathVars, submitVars, errorVars, cacheVars, fracVars, netVars>>

FindOptimalPath(tokenIn, tokenOut, amount, tradeType, pairsOk, unreadable) ==
    /\ rPc = "idle"
    /\ rReq' = [tokenIn |-> tokenIn, tokenOut |-> tokenOut, amount |-> amount,
                tradeType |-> tradeType, unreadable |-> unreadable]
    /\ rBest' = NoBest
    /\ rLog' = <<>>
    /\ IF tradeType # "EXACT_IN"
       THEN /\ rResult' = RThrow("ValidationError")
            /\ rPc' = "done"
            /\ UNCHANGED <<rGraph, rPaths, rIdx>>
       ELSE IF ~pairsOk
       THEN /\ rResult' = RThrow("getAllPairs failed")
            /\ rPc' = "done"
            /\ UNCHANGED <<rGraph, rPaths, rIdx>>
       ELSE \E tokenGraph \in {buildTokenGraph(unreadable)} :
            \E paths \in {findAllPaths(tokenIn, tokenOut, tokenGraph, ROUTER_MAX_HOPS)} :
                /\ rGraph' = tokenGraph
                /\ rPaths' = paths
                /\ IF Len(paths) = 0
                   THEN rResult' = RNull /\ rPc' = "done" /\ UNCHANGED rIdx
                   ELSE rResult' = RPending /\ rPc' = "quoting" /\ rIdx' = 1
    /\ UNCHANGED <<pollVars, retryVars, pools, mathVars, quoteVars, pathVars, submitVars, errorVars, cacheVars, fracVars, netVars>>

(* The pairs whose getTokens read fails during one graph build. *)
ReadFailures == {U \in SUBSET (1..Len(pools)) : Cardinality(U) <= MaxReadFailures}

CallFindOptimalPath ==
    /\ rPc = "idle"
    /\ \E tokenIn \in RouterTokens, tokenOut \in RouterTokens,
          amount \in RouterAmounts, tradeType \in TradeTypes :
           \/ FindOptimalPath(tokenIn, tokenOut, amount, tradeType, FALSE, {})
           \/ \E unreadable \in ReadFailures :
                 FindOptimalPath(tokenIn, tokenOut, amount, tradeType, TRUE, unreadable)

(* The quote of one candidate: a direct quote for two tokens, a chained    *)
(* quote otherwise.                                                        *)
QuotePath(path, rpcOk) ==
    IF Len(path) = 2
    THEN getQuote([tokenIn |-> path[1], tokenOut |-> path[2],
                   amount |-> rReq.amount, tradeType |-> rReq.tradeType,
                   slippageBps |-> <<>>],
                  <<DEFAULTS_slippageBps>>, rpcOk)
    ELSE getMultiHopQuote(path, rReq.amount, rReq.tradeType,
                          <<DEFAULTS_slippageBps>>, rpcOk)

(* if (!bestPath || quote.amountOut > bestPath.quote.amountOut) *)
SelectBest_KeepsLastOfEqual(best, path, quote) ==
    IF ~best.found \/ quote.amountOut >= best.quote.amountOut
    THEN Best(path, quote)
    ELSE best

SelectBest(best, path, quote) ==
    IF ~best.found \/ quote.amountOut > best.quote.amountOut
    THEN Best(path, quote)
    ELSE best

LogEntry(path, q) == [path |-> path, ok |-> q.ok, quote |-> q.quote, err |-> q.err]

(* One iteration of the loop over the candidates; the return follows the   *)
(* last iteration at once.                                                 *)
QuoteNextPath_Rethrows ==
    /\ rPc = "quoting"
    /\ \E rpcOk \in BOOLEAN : \E q \in {QuotePath(rPaths[rIdx], rpcOk)} :
        LET path == rPaths[rIdx]
            best == IF q.ok THEN SelectBest(rBest, path, q.quote) ELSE rBest
        IN  /\ rLog' = Append(rLog, LogEntry(path, q))
            /\ rBest' = best
            /\ IF ~q.ok
               THEN rPc' = "done" /\ rResult' = RThrow(q.err) /\ UNCHANGED rIdx
               ELSE IF rIdx = Len(rPaths)
               THEN rPc' = "done" /\ rResult' = RReturn(best) /\ UNCHANGED rIdx
               ELSE rPc' = "quoting" /\ rResult' = rResult /\ rIdx' = rIdx + 1
    /\ UNCHANGED <<pollVars, retryVars, pools, mathVars, quoteVars, pathVars, rReq, rGraph, rPaths, submitVars, errorVars, cacheVars, fracVars, netVars>>

QuoteNextPath ==
    /\ rPc = "quoting"
    /\ \E rpcOk \in BOOLEAN : \E q \in {QuotePath(rPaths[rIdx], rpcOk)} :
        LET path == rPaths[rIdx]
            best == IF q.ok THEN SelectBest(rBest, path, q.quote) ELSE rBest
        IN  /\ rLog' = Append(rLog, LogEntry(path, q))
            /\ rBest' = best
            /\ IF rIdx = Len(rPaths)
               THEN rPc' = "done" /\ rResult' = RReturn(best) /\ UNCHANGED rIdx
               ELSE rPc' = "quoting" /\ rResult' = rResult /\ rIdx' = rIdx + 1
    /\ UNCHANGED <<pollVars, retryVars, pools, mathVars, quoteVars, pathVars, rReq, rGraph, rPaths, submitVars, errorVars, cacheVars, fracVars, netVars>>

----------------------------------------------------------------------------
(* withRetry: utils/ledger.ts (isRetryable, backoffMultiplier, no jitter)  *)
(* and utils/retry.ts (inline classification, doubling, 15% jitter)        *)

(* JavaScript values of an error's fields *)
Undefined == [t |-> "undefined", v |-> ""]
Str(s) == [t |-> "string", v |-> s]
(* a number, held as its decimal numeral *)
Num(n) == [t |-> "number", v |-> n]

(* x || y takes y when x is undefined, "" or 0 *)
Truthy(x) ==
    CASE x.t = "undefined" -> FALSE
      [] x.t = "string" -> x.v # ""
      [] x.t = "number" -> x.v # "0"

(* String.prototype.toLowerCase / toUpperCase on the strings in use *)
toLowerCase(s) ==
    CASE s = "Request timeout" -> "request timeout"
      [] s = "Connection TIMEOUT" -> "connection timeout"
      [] s = "[object Object]" -> "[object object]"
      [] OTHER -> s

toUpperCase(s) ==
    CASE s = "econnreset" -> "ECONNRESET"
      [] OTHER -> s

(* String.prototype.includes on the strings in use: case-sensitive *)
StrIncludes(s, sub) ==
    /\ sub = "timeout"
    /\ s \in {"Request timeout", "request timeout", "connection timeout"}

(* The values the wrapped operation may throw: null, a string, or an       *)
(* object with message, code and response.status.                          *)
ThrownNull == [kind |-> "null", text |-> "", message |-> Undefined,
               code |-> Undefined, status |-> Undefined]
ThrownString(s) == [kind |-> "string", text |-> s, message |-> Undefined,
                    code |-> Undefined, status |-> Undefined]
ThrownObject(m, c, st) == [kind |-> "object", text |-> "[object Object]",
                           message |-> m, code |-> c, status |-> st]

(* The TypeError a method call on a value without that method raises *)
TypeErrorValue == [kind |-> "object", text |-> "TypeError",
                   message |-> Str("is not a function"),
                   code |-> Undefined, status |-> Undefined]

ErrorValues ==
    { ThrownNull,
      ThrownString("Request timeout"),
      ThrownObject(Str("boom"), Undefined, Undefined),
      ThrownObject(Str("Request timeout"), Undefined, Undefined),
      ThrownObject(Str("Connection TIMEOUT"), Undefined, Undefined),
      ThrownObject(Str("boom"), Str("ETIMEDOUT"), Undefined),
      ThrownObject(Str("boom"), Str("econnreset"), Undefined),
      ThrownObject(Str("boom"), Undefined, Num("429")),
      ThrownObject(Str("boom"), Undefined, Num("500")),
      ThrownObject(Str("boom"), Num("500"), Undefined),
      ThrownObject(Num("42"), Undefined, Undefined) }

(* The outcome of a classification: a boolean, or a TypeError thrown *)
Classified(b) == [threw |-> FALSE, val |-> b]
ClassifyThrows == [threw |-> TRUE, val |-> FALSE]

(* isRetryable of utils/ledger.ts *)
isRetryable(err) ==
    IF err.kind = "null" \/ (err.kind = "string" /\ err.text = "")
    THEN Classified(FALSE)
    ELSE
        LET msgSrc == IF Truthy(err.message) THEN err.message ELSE Str(err.text)
            codeSrc == IF Truthy(err.code) THEN err.code ELSE Str("")
        IN  IF msgSrc.t # "string" \/ codeSrc.t # "string"
            THEN ClassifyThrows
            ELSE
                LET message == toLowerCase(msgSrc.v)
                    code == toUpperCase(codeSrc.v)
                IN  Classified(
                        \/ err.status = Num("429")
                        \/ err.status = Num("503")
                        \/ code \in {"ECONNABORTED", "ETIMEDOUT", "ECONNRESET",
                                     "ECONNREFUSED", "ENOTFOUND"}
                        \/ \E sub \in {"timeout", "socket hang up", "too many requests",
                                       "service unavailable", "enotfound",
                                       "econnrefused", "econnreset", "etimedout"} :
                              StrIncludes(message, sub))

(* The inline classification of utils/retry.ts: the disjuncts are          *)
(* evaluated in order, and err?.message?.includes is reached only when     *)
(* the earlier ones are false.                                             *)
isRetryableInline(err) ==
    IF err.kind # "object" THEN Classified(FALSE)
    ELSE IF \/ err.status = Num("429")
            \/ err.status = Num("503")
            \/ err.code = Str("ECONNABORTED")
            \/ err.code = Str("ETIMEDOUT")
    THEN Classified(TRUE)
    ELSE IF err.message.t = "undefined" THEN Classified(FALSE)
    ELSE IF err.message.t # "string" THEN ClassifyThrows
    ELSE Classified(StrIncludes(err.message.v, "timeout"))

Classify(variant, err) ==
    IF variant = "ledger" THEN isRetryable(err) ELSE isRetryableInline(err)

(* Options of a call. utils/ledger.ts resolves the delays through the      *)
(* current and the deprecated names; utils/retry.ts reads retryDelayMs     *)
(* and maxRetryDelayMs and doubles.                                        *)
MaxRetries == 2

RETRY_DEFAULT_BASE_DELAY == 1000
RETRY_DEFAULT_MAX_DELAY == 10000
RETRY_DEFAULT_MULTIPLIER == 2

RetryOptions(variant) ==
    IF variant = "ledger"
    THEN [maxRetries : 0..MaxRetries,
          baseDelayMs : Optional({5}),
          retryDelayMs : Optional({7}),
          maxDelayMs : Optional({8}),
          maxRetryDelayMs : Optional({12}),
          backoffMultiplier : Optional({1, 3})]
    ELSE [maxRetries : 0..MaxRetries,
          baseDelayMs : {<<>>},
          retryDelayMs : {<<5>>},
          maxDelayMs : {<<>>},
          maxRetryDelayMs : {<<8>>, <<100>>},
          backoffMultiplier : {<<>>}]

ResolveOptions(variant, options) ==
    IF variant = "ledger"
    THEN [maxRetries |-> options.maxRetries,
          baseDelay |-> NullishOr(NullishOr(options.baseDelayMs, options.retryDelayMs),
                                  <<RETRY_DEFAULT_BASE_DELAY>>)[1],
          maxDelay |-> NullishOr(NullishOr(options.maxDelayMs, options.maxRetryDelayMs),
                                 <<RETRY_DEFAULT_MAX_DELAY>>)[1],
          multiplier |-> NullishOr(options.backoffMultiplier,
                                   <<RETRY_DEFAULT_MULTIPLIER>>)[1]]
    ELSE [maxRetries |-> options.maxRetries,
          baseDelay |-> options.retryDelayMs[1],
          maxDelay |-> options.maxRetryDelayMs[1],
          multiplier |-> 2]

RECURSIVE Pow(_, _)
Pow(b, e) == IF e = 0 THEN 1 ELSE b * Pow(b, e - 1)

Min(a, b) == IF a <= b THEN a ELSE b
Max(a, b) == IF a >= b THEN a ELSE b

(* Math.min(maxDelay, baseDelay * Math.pow(multiplier, attempt)) *)
backoff_ExponentOffByOne(cfg, attempt) ==
    Min(cfg.maxDelay, cfg.baseDelay * Pow(cfg.multiplier, attempt + 1))

backoff(cfg, attempt) ==
    Min(cfg.maxDelay, cfg.baseDelay * Pow(cfg.multiplier, attempt))

(* The delay awaited: the backoff itself in utils/ledger.ts; in            *)
(* utils/retry.ts Math.max(0, backoff + backoff * 0.15 * r) with r in      *)
(* [-1, 1), sampled at both ends and the middle.                           *)
JitterPercents == {-15, 0, 15}

Delays(variant, b) ==
    IF variant = "ledger" THEN {b}
    ELSE {Max(0, b + BigIntDiv(b * j, 100)) : j \in JitterPercents}

(* for (let attempt = 0; attempt <= maxRetries; attempt++) *)
LoopContinues_StopsOneShort(attempt, maxRetries) == attempt < maxRetries

LoopContinues(attempt, maxRetries) == attempt <= maxRetries

(* if (!isRetryable(err) || attempt === maxRetries) throw err *)
MustRethrow_IgnoresClass(retryable, attempt, maxRetries) == attempt = maxRetries

MustRethrow(retryable, attempt, maxRetries) ==
    ~retryable \/ attempt = maxRetries

NoError == [kind |-> "none", text |-> "", message |-> Undefined,
            code |-> Undefined, status |-> Undefined]

WPending == [kind |-> "pending", error |-> NoError]
WResolved == [kind |-> "resolved", error |-> NoError]
WRejected(e) == [kind |-> "rejected", error |-> e]

NoRetryOptions ==
    [maxRetries |-> 0, baseDelayMs |-> <<>>, retryDelayMs |-> <<>>, maxDelayMs |-> <<>>,
     maxRetryDelayMs |-> <<>>, backoffMultiplier |-> <<>>]

RetryInit ==
    /\ wPc = "idle"
    /\ wVariant = "ledger"
    /\ wOpts = NoRetryOptions
    /\ wCfg = ResolveOptions("ledger", NoRetryOptions)
    /\ wAttempt = 0
    /\ wCalls = 0
    /\ wRaised = <<>>
    /\ wLastError = NoError
    /\ wDelays = <<>>
    /\ wResult = WPending

(* The loop header: the next attempt, or throw lastError after the loop.   *)
EnterLoop(attempt, maxRetries, lastError) ==
    /\ wAttempt' = attempt
    /\ IF LoopContinues(attempt, maxRetries)
       THEN wPc' = "calling" /\ wResult' = WPending
       ELSE wPc' = "done" /\ wResult' = WRejected(lastError)

CallWithRetry ==
    /\ wPc = "idle"
    /\ \E variant \in {"ledger", "retry"} :
        \E options \in RetryOptions(variant) :
            /\ wVariant' = variant
            /\ wOpts' = options
            /\ wCfg' = ResolveOptions(variant, options)
            /\ EnterLoop(0, options.maxRetries, NoError)
    /\ UNCHANGED <<wCalls, wRaised, wLastError, wDelays>>
    /\ UNCHANGED <<pools, mathVars, quoteVars, pathVars, routerVars, pollVars, submitVars, errorVars, cacheVars, fracVars, netVars>>

(* return await fn() *)
AttemptSucceeds ==
    /\ wPc = "calling"
    /\ wCalls' = wCalls + 1
    /\ wPc' = "done"
    /\ wResult' = WResolved
    /\ UNCHANGED <<wVariant, wOpts, wCfg, wAttempt, wRaised, wLastError, wDelays>>
    /\ UNCHANGED <<pools, mathVars, quoteVars, pathVars, routerVars, pollVars, submitVars, errorVars, cacheVars, fracVars, netVars>>

(* fn() rejects with err: the catch block up to the start of the delay *)
AttemptFails ==
    /\ wPc = "calling"
    /\ \E err \in ErrorValues :
        /\ wCalls' = wCalls + 1
        /\ wRaised' = Append(wRaised, err)
        /\ wLastError' = err
        /\ LET c == Classify(wVariant, err)
           IN  IF c.threw
               THEN /\ wPc' = "done"
                    /\ wResult' = WRejected(TypeErrorValue)
                    /\ UNCHANGED wDelays
               ELSE IF MustRethrow(c.val, wAttempt, wCfg.maxRetries)
               THEN /\ wPc' = "done"
                    /\ wResult' = WRejected(err)
                    /\ UNCHANGED wDelays
               ELSE /\ wPc' = "delaying"
                    /\ wResult' = WPending
                    /\ \E delay \in Delays(wVariant, backoff(wCfg, wAttempt)) :
                        wDelays' = Append(wDelays,
                                          [after |-> wCalls + 1,
                                           backoff |-> backoff(wCfg, wAttempt),
                                           delay |-> delay])
    /\ UNCHANGED <<wVariant, wOpts, wCfg, wAttempt>>
    /\ UNCHANGED <<pools, mathVars, quoteVars, pathVars, routerVars, pollVars, submitVars, errorVars, cacheVars, fracVars, netVars>>

(* The timer of the delay fires: attempt++ and the loop header *)
RetryDelayElapsed ==
    /\ wPc = "delaying"
    /\ EnterLoop(wAttempt + 1, wCfg.maxRetries, wLastError)
    /\ UNCHANGED <<wVariant, wOpts, wCfg, wCalls, wRaised, wLastError, wDelays>>
    /\ UNCHANGED <<pools, mathVars, quoteVars, pathVars, routerVars, pollVars, submitVars, errorVars, cacheVars, fracVars, netVars>>

----------------------------------------------------------------------------
(* TransactionPoller.poll (utils/retry.ts) *)

PollingStrategies == {"LINEAR", "EXPONENTIAL"}

POLL_DEFAULT_INTERVAL == 1000
POLL_DEFAULT_MAX_ATTEMPTS == 30
POLL_DEFAULT_BACKOFF_FACTOR == 2
POLL_DEFAULT_MAX_INTERVAL == 10000

MaxPollAttempts == 4

TxHashes == {"TX_A", "TX_B"}

PollingOptions ==
    [strategy : Optional(PollingStrategies),
     interval : Optional({3, 100}),
     maxAttempts : Optional(1..MaxPollAttempts),
     backoffFactor : Optional({3}),
     maxInterval : Optional({250})]

(* options.x ?? default, for every option *)
ResolvePollingOptions(options) ==
    [strategy |-> NullishOr(options.strategy, <<"LINEAR">>)[1],
     interval |-> NullishOr(options.interval, <<POLL_DEFAULT_INTERVAL>>)[1],
     maxAttempts |-> NullishOr(options.maxAttempts, <<POLL_DEFAULT_MAX_ATTEMPTS>>)[1],
     backoffFactor |-> NullishOr(options.backoffFactor, <<POLL_DEFAULT_BACKOFF_FACTOR>>)[1],
     maxInterval |-> NullishOr(options.maxInterval, <<POLL_DEFAULT_MAX_INTERVAL>>)[1]]

(* What server.getTransaction may do: resolve with a status (SUCCESS with  *)
(* or without a ledger, FAILED, NOT_FOUND, or a status poll does not       *)
(* know), or reject.                                                       *)
ProbeOutcome(kind, ledger) == [kind |-> kind, ledger |-> ledger]

ProbeOutcomes ==
    { ProbeOutcome("SUCCESS", <<101>>), ProbeOutcome("SUCCESS", <<>>),
      ProbeOutcome("FAILED", <<>>), ProbeOutcome("NOT_FOUND", <<>>),
      ProbeOutcome("UNKNOWN", <<>>), ProbeOutcome("rejects", <<>>) }

NoProbe == ProbeOutcome("none", <<>>)

IsTerminal(outcome) == outcome.kind \in {"SUCCESS", "FAILED"}

TPending == [kind |-> "pending", code |-> "", ledger |-> 0, txHash |-> ""]
TSuccess(txHash, ledger) ==
    [kind |-> "success", code |-> "", ledger |-> ledger, txHash |-> txHash]
TFailure(txHash, code) ==
    [kind |-> "failure", code |-> code, ledger |-> 0, txHash |-> txHash]
TRejected == [kind |-> "rejected", code |-> "", ledger |-> 0, txHash |-> ""]

Continue == [returns |-> FALSE, result |-> TPending]
Return(result) == [returns |-> TRUE, result |-> result]

(* The try/catch around one probe: return on SUCCESS or FAILED, fall       *)
(* through on any other status and on a rejected probe.                    *)
ProbeStep_FailedIsPending(txHash, outcome) ==
    IF outcome.kind = "SUCCESS"
    THEN Return(TSuccess(txHash, NullishOr(outcome.ledger, <<0>>)[1]))
    ELSE Continue

ProbeStep_Rethrows(txHash, outcome) ==
    IF outcome.kind = "SUCCESS"
    THEN Return(TSuccess(txHash, NullishOr(outcome.ledger, <<0>>)[1]))
    ELSE IF outcome.kind = "FAILED"
    THEN Return(TFailure(txHash, "TX_FAILED"))
    ELSE IF outcome.kind = "rejects"
    THEN Return(TRejected)
    ELSE Continue

ProbeStep(txHash, outcome) ==
    IF outcome.kind = "SUCCESS"
    THEN Return(TSuccess(txHash, NullishOr(outcome.ledger, <<0>>)[1]))
    ELSE IF outcome.kind = "FAILED"
    THEN Return(TFailure(txHash, "TX_FAILED"))
    ELSE Continue

(* for (let attempt = 1; attempt <= maxAttempts; attempt++) *)
PollLoopContinues_StopsOneShort(attempt, maxAttempts) == attempt < maxAttempts

PollLoopContinues(attempt, maxAttempts) == attempt <= maxAttempts

(* if (attempt < maxAttempts) await setTimeout(currentInterval) *)
ShouldWait_AlsoAfterLast(attempt, maxAttempts) == attempt <= maxAttempts

ShouldWait(attempt, maxAttempts) == attempt < maxAttempts

(* The interval after a wait: multiplied and capped under EXPONENTIAL *)
NextInterval(cfg, currentInterval) ==
    IF cfg.strategy = "EXPONENTIAL"
    THEN Min(currentInterval * cfg.backoffFactor, cfg.maxInterval)
    ELSE currentInterval

NoPollingOptions ==
    [strategy |-> <<>>, interval |-> <<>>, maxAttempts |-> <<>>,
     backoffFactor |-> <<>>, maxInterval |-> <<>>]

PollInit ==
    /\ tPc = "idle"
    /\ tHash = ""
    /\ tOpts = NoPollingOptions
    /\ tCfg = ResolvePollingOptions(NoPollingOptions)
    /\ tAttempt = 0
    /\ tInterval = 0
    /\ tProbes = 0
    /\ tLast = NoProbe
    /\ tNonTerminal = 0
    /\ tAllRejected = TRUE
    /\ tWaits = <<>>
    /\ tResult = TPending

(* The loop header: the next probe, or TX_TIMEOUT after the loop *)
PollLoop(txHash, attempt, maxAttempts) ==
    /\ tAttempt' = attempt
    /\ IF PollLoopContinues(attempt, maxAttempts)
       THEN tPc' = "probing" /\ tResult' = TPending
       ELSE tPc' = "done" /\ tResult' = TFailure(txHash, "TX_TIMEOUT")

CallPoll ==
    /\ tPc = "idle"
    /\ \E txHash \in TxHashes, options \in PollingOptions :
        /\ tHash' = txHash
        /\ tOpts' = options
        /\ tCfg' = ResolvePollingOptions(options)
        /\ tInterval' = ResolvePollingOptions(options).interval
        /\ PollLoop(txHash, 1, ResolvePollingOptions(options).maxAttempts)
    /\ UNCHANGED <<tProbes, tLast, tNonTerminal, tAllRejected, tWaits>>
    /\ UNCHANGED <<pools, mathVars, quoteVars, pathVars, routerVars, retryVars, submitVars, errorVars, cacheVars, fracVars, netVars>>

(* One iteration up to its wait: the probe, and then either the return,    *)
(* the start of the wait, or the next loop header.                         *)
Probe ==
    /\ tPc = "probing"
    /\ \E outcome \in ProbeOutcomes :
        /\ tProbes' = tProbes + 1
        /\ tLast' = outcome
        /\ tNonTerminal' = IF IsTerminal(outcome) THEN tNonTerminal ELSE tNonTerminal + 1
        /\ tAllRejected' = (tAllRejected /\ outcome.kind = "rejects")
        /\ LET step == ProbeStep(tHash, outcome)
           IN  IF step.returns
               THEN /\ tPc' = "done"
                    /\ tResult' = step.result
                    /\ UNCHANGED <<tAttempt, tWaits>>
               ELSE IF ShouldWait(tAttempt, tCfg.maxAttempts)
               THEN /\ tPc' = "waiting"
                    /\ tWaits' = Append(tWaits, tInterval)
                    /\ UNCHANGED <<tAttempt, tResult>>
               ELSE /\ PollLoop(tHash, tAttempt + 1, tCfg.maxAttempts)
                    /\ UNCHANGED tWaits
    /\ UNCHANGED <<tHash, tOpts, tCfg, tInterval>>
    /\ UNCHANGED <<pools, mathVars, quoteVars, pathVars, routerVars, retryVars, submitVars, errorVars, cacheVars, fracVars, netVars>>

(* The timer of the wait fires: the interval update, attempt++ and the     *)
(* loop header.                                                            *)
PollWaitElapsed ==
    /\ tPc = "waiting"
    /\ tInterval' = NextInterval(tCfg, tInterval)
    /\ PollLoop(tHash, tAttempt + 1, tCfg.maxAttempts)
    /\ UNCHANGED <<tHash, tOpts, tCfg, tProbes, tLast, tNonTerminal, tAllRejected, tWaits>>
    /\ UNCHANGED <<pools, mathVars, quoteVars, pathVars, routerVars, retryVars, submitVars, errorVars, cacheVars, fracVars, netVars>>

----------------------------------------------------------------------------
(* CoralSwapClient.submitTransaction (client.ts) *)

(* Values a step may raise: Error instances, and values that are not       *)
(* Error instances (a string, a plain object with a message).              *)
Raised(type, message) == [type |-> type, message |-> message]

NoRaise == Raised("none", "")

SIGNER_ERROR_MESSAGE ==
    "No signing key configured. Provide secretKey in config or use external signing."

SignerErrorValue == Raised("Error", SIGNER_ERROR_MESSAGE)

RaisedValues ==
    { Raised("Error", "Network error"),
      Raised("Error", ""),
      Raised("string", "User declined"),
      Raised("object", "User declined") }

(* The client's configuration as far as submitTransaction reads it: an     *)
(* explicit source, config.publicKey, and the signer (none, the built-in   *)
(* KeypairSigner, or an external one).                                     *)
SubmitConfigs ==
    [source : BOOLEAN, publicKey : BOOLEAN, signer : {"none", "keypair", "external"}]

SendStatuses == {"PENDING", "DUPLICATE", "TRY_AGAIN_LATER", "ERROR"}

SubmitPending == [kind |-> "pending", success |-> FALSE, code |-> "", message |-> ""]
SubmitSuccess == [kind |-> "returned", success |-> TRUE, code |-> "", message |-> ""]
SubmitFailure(code, message) ==
    [kind |-> "returned", success |-> FALSE, code |-> code, message |-> message]
SubmitRejected == [kind |-> "rejected", success |-> FALSE, code |-> "", message |-> ""]

(* What client.pollTransaction may resolve to: the results of poll *)
PollResults ==
    { SubmitSuccess,
      SubmitFailure("TX_FAILED", "Transaction failed on-chain"),
      SubmitFailure("TX_TIMEOUT", "Transaction confirmation timed out after 30 attempts") }

(* err instanceof Error ? err.message : "Unknown error" *)
UnexpectedErrorMessage(err) ==
    IF err.type = "Error" THEN err.message ELSE "Unknown error"

(* The step after the simulation and the assembly of the transaction *)
AfterSimulate(simSuccess, signer) ==
    IF ~simSuccess THEN "SIMULATION_FAILED"
    ELSE IF signer = "none" THEN "NO_SIGNER"
    ELSE "sign"

(* The step after sendTransaction returned *)
AfterSend_PollsOnError(status) == "poll"

AfterSend(status) == IF status = "ERROR" THEN "SUBMIT_FAILED" ELSE "poll"

NoSubmitConfig == [source |-> FALSE, publicKey |-> FALSE, signer |-> "none"]

SubmitInit ==
    /\ sPc = "idle"
    /\ sCfg = NoSubmitConfig
    /\ sKeyCache = FALSE
    /\ sCalls = <<>>
    /\ sSim = ""
    /\ sSend = ""
    /\ sRaised = NoRaise
    /\ sReturns = 0
    /\ sResult = SubmitPending

(* return from submitTransaction *)
SubmitReturn(result) ==
    /\ sPc' = "done"
    /\ sResult' = result
    /\ sReturns' = sReturns + 1

(* The catch block: an UNEXPECTED_ERROR result for whatever was raised *)
SubmitCatch(err) ==
    /\ sRaised' = err
    /\ SubmitReturn(SubmitFailure("UNEXPECTED_ERROR", UnexpectedErrorMessage(err)))

SubmitGoes(pc) ==
    /\ sPc' = pc
    /\ UNCHANGED <<sResult, sReturns, sRaised>>

(* The call up to its first await: source ?? resolvePublicKey(), and the   *)
(* public-key cache the constructor fills for a KeypairSigner.             *)
CallSubmitTransaction ==
    /\ sPc = "idle"
    /\ \E cfg \in SubmitConfigs :
        /\ sCfg' = cfg
        /\ IF cfg.source \/ cfg.signer = "keypair"
           THEN /\ sKeyCache' = (cfg.signer = "keypair")
                /\ SubmitGoes("getAccount")
           ELSE IF cfg.publicKey
           THEN /\ sKeyCache' = TRUE
                /\ SubmitGoes("getAccount")
           ELSE IF cfg.signer = "external"
           THEN /\ sKeyCache' = FALSE
                /\ SubmitGoes("publicKey")
           ELSE /\ sKeyCache' = FALSE
                /\ SubmitCatch(SignerErrorValue)
    /\ UNCHANGED <<sCalls, sSim, sSend>>
    /\ UNCHANGED <<pools, mathVars, quoteVars, pathVars, routerVars, retryVars, pollVars, errorVars, cacheVars, fracVars, netVars>>

(* await this.signer.publicKey() inside resolvePublicKey *)
SignerPublicKey ==
    /\ sPc = "publicKey"
    /\ sCalls' = Append(sCalls, "publicKey")
    /\ \/ sKeyCache' = TRUE /\ SubmitGoes("getAccount")
       \/ \E err \in RaisedValues : SubmitCatch(err) /\ UNCHANGED sKeyCache
    /\ UNCHANGED <<sCfg, sSim, sSend>>
    /\ UNCHANGED <<pools, mathVars, quoteVars, pathVars, routerVars, retryVars, pollVars, errorVars, cacheVars, fracVars, netVars>>

(* await this.server.getAccount(sourceKey), then the transaction is built *)
GetAccount ==
    /\ sPc = "getAccount"
    /\ sCalls' = Append(sCalls, "getAccount")
    /\ \/ SubmitGoes("simulate")
       \/ \E err \in RaisedValues : SubmitCatch(err)
    /\ UNCHANGED <<sCfg, sKeyCache, sSim, sSend>>
    /\ UNCHANGED <<pools, mathVars, quoteVars, pathVars, routerVars, retryVars, pollVars, errorVars, cacheVars, fracVars, netVars>>

(* await this.server.simulateTransaction(tx), the success test, the        *)
(* assembly and the signer test                                            *)
Simulate ==
    /\ sPc = "simulate"
    /\ sCalls' = Append(sCalls, "simulateTransaction")
    /\ \/ \E simSuccess \in BOOLEAN :
            /\ sSim' = IF simSuccess THEN "success" ELSE "failed"
            /\ LET next == AfterSimulate(simSuccess, sCfg.signer)
               IN  IF next = "sign"
                   THEN SubmitGoes("sign")
                   ELSE /\ SubmitReturn(SubmitFailure(next,
                               IF next = "NO_SIGNER"
                               THEN "No signing key configured. Provide secretKey or a Signer instance."
                               ELSE "Transaction simulation failed"))
                        /\ UNCHANGED sRaised
       \/ \E err \in RaisedValues : SubmitCatch(err) /\ UNCHANGED sSim
    /\ UNCHANGED <<sCfg, sKeyCache, sSend>>
    /\ UNCHANGED <<pools, mathVars, quoteVars, pathVars, routerVars, retryVars, pollVars, errorVars, cacheVars, fracVars, netVars>>

(* await this.signer.signTransaction(xdr), then new Transaction(signedXdr) *)
Sign ==
    /\ sPc = "sign"
    /\ sCalls' = Append(sCalls, "signTransaction")
    /\ \/ SubmitGoes("send")
       \/ \E err \in RaisedValues : SubmitCatch(err)
    /\ UNCHANGED <<sCfg, sKeyCache, sSim, sSend>>
    /\ UNCHANGED <<pools, mathVars, quoteVars, pathVars, routerVars, retryVars, pollVars, errorVars, cacheVars, fracVars, netVars>>

(* await this.server.sendTransaction(signedTx) and the status test *)
Send ==
    /\ sPc = "send"
    /\ sCalls' = Append(sCalls, "sendTransaction")
    /\ \/ \E status \in SendStatuses :
            /\ sSend' = status
            /\ IF AfterSend(status) = "poll"
               THEN SubmitGoes("poll")
               ELSE /\ SubmitReturn(SubmitFailure("SUBMIT_FAILED",
                                                  "Transaction submission failed"))
                    /\ UNCHANGED sRaised
       \/ \E err \in RaisedValues : SubmitCatch(err) /\ UNCHANGED sSend
    /\ UNCHANGED <<sCfg, sKeyCache, sSim>>
    /\ UNCHANGED <<pools, mathVars, quoteVars, pathVars, routerVars, retryVars, pollVars, errorVars, cacheVars, fracVars, netVars>>

(* await this.pollTransaction(response.hash) *)
PollTransaction ==
    /\ sPc = "poll"
    /\ sCalls' = Append(sCalls, "pollTransaction")
    /\ \/ \E result \in PollResults : SubmitReturn(result) /\ UNCHANGED sRaised
       \/ \E err \in RaisedValues : SubmitCatch(err)
    /\ UNCHANGED <<sCfg, sKeyCache, sSim, sSend>>
    /\ UNCHANGED <<pools, mathVars, quoteVars, pathVars, routerVars, retryVars, pollVars, errorVars, cacheVars, fracVars, netVars>>

----------------------------------------------------------------------------
(* mapError, mapContractError (errors.ts) and ErrorParser (errors/parser)  *)

(* A message is a sequence of words, read as the words joined by blanks.   *)
(* The words are chosen so that no search term of mapError spans two       *)
(* words; a word may be a phrase.                                          *)
ContractWords ==
    { "Error(Contract, #101)", "Error(Contract, #102)", "Error(Contract, #103)",
      "Error(Contract, #106)", "error(contract, 111)", "Error(Contract, #999)" }

HeuristicWords ==
    { "EXPIRED", "Deadline passed", "slippage too high", "not enough liquidity",
      "pool paused", "ECONNRESET", "429", "signer missing", "callback failed",
      "invalid amount", "invalid while active", "no pair", "simulation failed",
      "TX_FAILED" }

Vocabulary == ContractWords \cup HeuristicWords \cup {"boom"}

(* The search terms of mapError that occur in a word, as                   *)
(* String.prototype.includes finds them (case-sensitive).                  *)
TermsIn(word) ==
    CASE word = "EXPIRED" -> {"EXPIRED"}
      [] word = "deadline passed" -> {"deadline"}
      [] word = "slippage too high" -> {"slippage"}
      [] word = "not enough liquidity" -> {"liquidity"}
      [] word = "pool paused" -> {"paused"}
      [] word = "ECONNRESET" -> {"ECONNRESET"}
      [] word = "429" -> {"429"}
      [] word = "signer missing" -> {"signer"}
      [] word = "callback failed" -> {"callback"}
      [] word = "invalid amount" -> {"invalid"}
      [] word = "invalid while active" -> {"invalid", "active"}
      [] word = "no pair" -> {"no pair"}
      [] word = "simulation failed" -> {"simulation"}
      [] word = "TX_FAILED" -> {"TX_FAILED"}
      [] OTHER -> {}

(* String.prototype.toLowerCase on a word *)
LowerWord(word) ==
    CASE word = "EXPIRED" -> "expired"
      [] word = "Deadline passed" -> "deadline passed"
      [] word = "ECONNRESET" -> "econnreset"
      [] word = "TX_FAILED" -> "tx_failed"
      [] word = "Error(Contract, #101)" -> "error(contract, #101)"
      [] word = "Error(Contract, #102)" -> "error(contract, #102)"
      [] word = "Error(Contract, #103)" -> "error(contract, #103)"
      [] word = "Error(Contract, #106)" -> "error(contract, #106)"
      [] word = "Error(Contract, #999)" -> "error(contract, #999)"
      [] word = "[object Object]" -> "[object object]"
      [] OTHER -> word

(* message.includes(term) *)
MsgIncludes(message, term) ==
    \E i \in 1..Len(message) : term \in TermsIn(message[i])

(* message.toLowerCase().includes(term) *)
NormIncludes(message, term) ==
    \E i \in 1..Len(message) : term \in TermsIn(LowerWord(message[i]))

(* The number matched by /Error\(Contract,\s*#?([0-9]+)\)/i in a word; 0   *)
(* when the word does not match.                                           *)
CodeInWord(word) ==
    CASE word = "Error(Contract, #101)" -> 101
      [] word = "Error(Contract, #102)" -> 102
      [] word = "Error(Contract, #103)" -> 103
      [] word = "Error(Contract, #106)" -> 106
      [] word = "error(contract, 111)" -> 111
      [] word = "Error(Contract, #999)" -> 999
      [] OTHER -> 0

(* Error values. shape tells what the value is: a string, an Error         *)
(* instance, a plain object with a message, null, or an instance of        *)
(* CoralSwapSDKError ("sdk") with its class and code. origin tells which   *)
(* object it is: one the caller holds or one mapError constructed.         *)
(* original is details.originalError. The other details (deadline,         *)
(* amounts, pair address) are left out.                                    *)
RawError(shape, message) ==
    [shape |-> shape, class |-> "", code |-> "", message |-> message,
     origin |-> "caller", original |-> <<>>]

SDKError(class, code, message, origin, original) ==
    [shape |-> "sdk", class |-> class, code |-> code, message |-> message,
     origin |-> origin, original |-> original]

New(class, code, message) == SDKError(class, code, message, "mapError", <<>>)

(* The code each class passes to the base constructor *)
CodeOfClass(class) ==
    CASE class = "NetworkError" -> "NETWORK_ERROR"
      [] class = "RpcError" -> "RPC_ERROR"
      [] class = "SimulationError" -> "SIMULATION_ERROR"
      [] class = "TransactionError" -> "TRANSACTION_ERROR"
      [] class = "DeadlineError" -> "DEADLINE_EXCEEDED"
      [] class = "SlippageError" -> "SLIPPAGE_EXCEEDED"
      [] class = "InsufficientLiquidityError" -> "INSUFFICIENT_LIQUIDITY"
      [] class = "PairNotFoundError" -> "PAIR_NOT_FOUND"
      [] class = "ValidationError" -> "VALIDATION_ERROR"
      [] class = "FlashLoanError" -> "FLASH_LOAN_ERROR"
      [] class = "CircuitBreakerError" -> "CIRCUIT_BREAKER"
      [] class = "SignerError" -> "NO_SIGNER"
      [] class = "CoralSwapSDKError" -> "UNKNOWN_ERROR"

NewOf(class, message) == New(class, CodeOfClass(class), message)

DeadlineError == NewOf("DeadlineError", <<"Transaction deadline exceeded">>)
SlippageError == NewOf("SlippageError", <<"Slippage tolerance exceeded">>)
InsufficientLiquidityError ==
    NewOf("InsufficientLiquidityError", <<"Insufficient liquidity for pair">>)
CircuitBreakerError == NewOf("CircuitBreakerError", <<"Pool is paused for pair">>)
PairNotFoundError == NewOf("PairNotFoundError", <<"Pair not found for tokens">>)
SignerError == NewOf("SignerError", <<SIGNER_ERROR_MESSAGE>>)

(* mapContractError's null *)
Unmapped == RawError("null", <<>>)

(* ErrorParser.parseContractError: the text of a code, "" for null *)
parseContractError(code) ==
    CASE code = 100 -> "Pair already initialized"
      [] code = 101 -> "Zero address provided"
      [] code = 102 -> "Identical tokens provided"
      [] code = 103 -> "Insufficient liquidity minted"
      [] code = 104 -> "Insufficient liquidity burned"
      [] code = 105 -> "Insufficient output amount"
      [] code = 106 -> "Insufficient liquidity in pool"
      [] code = 107 -> "Invalid amount"
      [] code = 108 -> "K invariant violated"
      [] code = 109 -> "Insufficient input amount"
      [] code = 110 -> "Contract is locked (reentrancy guard)"
      [] code = 111 -> "Transaction expired (deadline exceeded)"
      [] code = 112 -> "Constraint not met"
      [] code = 113 -> "Invalid fee configuration"
      [] code = 200 -> "Router already initialized"
      [] code = 201 -> "Invalid swap path"
      [] code = 202 -> "Insufficient output amount"
      [] code = 203 -> "Excessive input amount"
      [] code = 204 -> "Expired deadline"
      [] code = 205 -> "Insufficient liquidity"
      [] code = 206 -> "Pair not found"
      [] code = 207 -> "Identical tokens"
      [] code = 300 -> "Factory already initialized"
      [] code = 301 -> "Unauthorized caller"
      [] code = 302 -> "Pair already exists"
      [] code = 303 -> "Zero address provided"
      [] code = 304 -> "Invalid fee configuration"
      [] OTHER -> ""

(* The class mapContractError's switch returns for a code; "" for the      *)
(* default branch.                                                         *)
ContractErrorClass(code) ==
    CASE code \in {100, 101, 102, 107, 108, 109, 112, 113, 201} -> "ValidationError"
      [] code \in {103, 104, 106, 205} -> "InsufficientLiquidityError"
      [] code \in {105, 202, 203} -> "SlippageError"
      [] code = 110 -> "TransactionError"
      [] code \in {111, 204} -> "DeadlineError"
      [] code \in {206, 300} -> "PairNotFoundError"
      [] OTHER -> ""

mapContractError(code) ==
    LET class == ContractErrorClass(code)
        message == parseContractError(code)
    IN  CASE class = "" -> Unmapped
          [] class = "DeadlineError" -> DeadlineError
          [] class = "PairNotFoundError" -> PairNotFoundError
          [] OTHER -> NewOf(class, <<message>>)

(* ErrorParser.extractErrorCode: the first match in the string itself or   *)
(* in error?.message; 0 for null.                                          *)
extractErrorCode(err) ==
    LET message == IF err.shape = "null" THEN <<>> ELSE err.message
        matches == { i \in 1..Len(message) : CodeInWord(message[i]) # 0 }
    IN  IF matches = {} THEN 0
        ELSE CodeInWord(message[CHOOSE i \in matches : \A j \in matches : i <= j])

(* err instanceof Error ? err.message : String(err) *)
MessageOf(err) ==
    CASE err.shape \in {"Error", "sdk", "string"} -> err.message
      [] err.shape = "object" -> <<"[object Object]">>
      [] err.shape = "null" -> <<"null">>

HeuristicClass_FlashLoanBeforeSigner(message) ==
    CASE MsgIncludes(message, "EXPIRED") \/ NormIncludes(message, "deadline")
            -> "DeadlineError"
      [] NormIncludes(message, "slippage") \/ MsgIncludes(message, "INSUFFICIENT_OUTPUT")
            -> "SlippageError"
      [] NormIncludes(message, "liquidity")
         \/ MsgIncludes(message, "INSUFFICIENT_LIQUIDITY")
            -> "InsufficientLiquidityError"
      [] NormIncludes(message, "circuit") \/ NormIncludes(message, "paused")
            -> "CircuitBreakerError"
      [] \/ MsgIncludes(message, "ECONNRESET") \/ MsgIncludes(message, "ETIMEDOUT")
         \/ MsgIncludes(message, "ENOTFOUND") \/ MsgIncludes(message, "ENETUNREACH")
            -> "NetworkError"
      [] \/ NormIncludes(message, "rate limit")
         \/ NormIncludes(message, "too many requests")
         \/ MsgIncludes(message, "RPC") \/ MsgIncludes(message, "429")
            -> "RpcError"
      [] \/ NormIncludes(message, "flash loan") \/ NormIncludes(message, "flash_loan")
         \/ NormIncludes(message, "reentrancy") \/ NormIncludes(message, "callback")
            -> "FlashLoanError"
      [] \/ NormIncludes(message, "signing") \/ NormIncludes(message, "signer")
         \/ MsgIncludes(message, "NO_SIGNER") \/ NormIncludes(message, "private key")
            -> "SignerError"
      [] \/ NormIncludes(message, "invalid") /\ ~NormIncludes(message, "active")
         \/ NormIncludes(message, "validation") \/ NormIncludes(message, "required")
         \/ NormIncludes(message, "must be")
            -> "ValidationError"
      [] \/ NormIncludes(message, "pair not found") \/ NormIncludes(message, "no pair")
         \/ MsgIncludes(message, "PAIR_NOT_FOUND")
            -> "PairNotFoundError"
      [] NormIncludes(message, "simulation") \/ MsgIncludes(message, "SIMULATION_FAILED")
            -> "SimulationError"
      [] \/ NormIncludes(message, "transaction") \/ MsgIncludes(message, "TX_FAILED")
         \/ NormIncludes(message, "tx failed")
            -> "TransactionError"
      [] OTHER -> "CoralSwapSDKError"

(* The substring rules of mapError, in their order *)
HeuristicClass(message) ==
    CASE MsgIncludes(message, "EXPIRED") \/ NormIncludes(message, "deadline")
            -> "DeadlineError"
      [] NormIncludes(message, "slippage") \/ MsgIncludes(message, "INSUFFICIENT_OUTPUT")
            -> "SlippageError"
      [] NormIncludes(message, "liquidity")
         \/ MsgIncludes(message, "INSUFFICIENT_LIQUIDITY")
            -> "InsufficientLiquidityError"
      [] NormIncludes(message, "circuit") \/ NormIncludes(message, "paused")
            -> "CircuitBreakerError"
      [] \/ MsgIncludes(message, "ECONNRESET") \/ MsgIncludes(message, "ETIMEDOUT")
         \/ MsgIncludes(message, "ENOTFOUND") \/ MsgIncludes(message, "ENETUNREACH")
            -> "NetworkError"
      [] \/ NormIncludes(message, "rate limit")
         \/ NormIncludes(message, "too many requests")
         \/ MsgIncludes(message, "RPC") \/ MsgIncludes(message, "429")
            -> "RpcError"
      [] \/ NormIncludes(message, "signing") \/ NormIncludes(message, "signer")
         \/ MsgIncludes(message, "NO_SIGNER") \/ NormIncludes(message, "private key")
            -> "SignerError"
      [] \/ NormIncludes(message, "flash loan") \/ NormIncludes(message, "flash_loan")
         \/ NormIncludes(message, "reentrancy") \/ NormIncludes(message, "callback")
            -> "FlashLoanError"
      [] \/ NormIncludes(message, "invalid") /\ ~NormIncludes(message, "active")
         \/ NormIncludes(message, "validation") \/ NormIncludes(message, "required")
         \/ NormIncludes(message, "must be")
            -> "ValidationError"
      [] \/ NormIncludes(message, "pair not found") \/ NormIncludes(message, "no pair")
         \/ MsgIncludes(message, "PAIR_NOT_FOUND")
            -> "PairNotFoundError"
      [] NormIncludes(message, "simulation") \/ MsgIncludes(message, "SIMULATION_FAILED")
            -> "SimulationError"
      [] \/ NormIncludes(message, "transaction") \/ MsgIncludes(message, "TX_FAILED")
         \/ NormIncludes(message, "tx failed")
            -> "TransactionError"
      [] OTHER -> "CoralSwapSDKError"

(* The error mapError constructs from the substring rules *)
mapByHeuristics(err) ==
    LET message == MessageOf(err)
        class == HeuristicClass(message)
    IN  CASE class = "DeadlineError" -> DeadlineError
          [] class = "SlippageError" -> SlippageError
          [] class = "InsufficientLiquidityError" -> InsufficientLiquidityError
          [] class = "CircuitBreakerError" -> CircuitBreakerError
          [] class = "SignerError" -> SignerError
          [] class = "PairNotFoundError" -> PairNotFoundError
          [] class = "CoralSwapSDKError"
                -> SDKError("CoralSwapSDKError", "UNKNOWN_ERROR", message, "mapError", <<err>>)
          [] OTHER -> NewOf(class, message)

mapError_Reclassifies(err) ==
    LET errorCode == extractErrorCode(err)
    IN  IF errorCode # 0 /\ mapContractError(errorCode) # Unmapped
        THEN mapContractError(errorCode)
        ELSE mapByHeuristics(err)

mapError_HeuristicsFirst(err) ==
    IF err.shape = "sdk" THEN err
    ELSE LET errorCode == extractErrorCode(err)
         IN  IF HeuristicClass(MessageOf(err)) # "CoralSwapSDKError"
             THEN mapByHeuristics(err)
             ELSE IF errorCode # 0 /\ mapContractError(errorCode) # Unmapped
             THEN mapContractError(errorCode)
             ELSE mapByHeuristics(err)

mapError(err) ==
    IF err.shape = "sdk" THEN err
    ELSE LET errorCode == extractErrorCode(err)
         IN  IF errorCode # 0 /\ mapContractError(errorCode) # Unmapped
             THEN mapContractError(errorCode)
             ELSE mapByHeuristics(err)

(* The values handed to mapError: messages of at most MaxWords words as a  *)
(* string, an Error or a plain object; null; and SDK errors a caller       *)
(* constructed.                                                            *)
MaxWords == 2

Messages == UNION { [1..n -> Vocabulary] : n \in 0..MaxWords }

SDKErrorInputs ==
    { SDKError(class, CodeOfClass(class), message, "caller", <<>>) :
        class \in SDKErrorClasses,
        message \in { <<"boom">>, <<"Deadline passed">>, <<"Error(Contract, #106)">> } }

MapErrorInputs ==
    { RawError(shape, message) : shape \in {"string", "Error", "object"},
                                 message \in Messages }
    \cup { RawError("null", <<>>) }
    \cup SDKErrorInputs

NoErrorValue == RawError("null", <<>>)

MapErrorInit ==
    /\ ePc = "idle"
    /\ eErr = NoErrorValue
    /\ eRes = NoErrorValue
    /\ eRes2 = NoErrorValue

(* mapError(err), and mapError applied to its own result *)
CallMapError ==
    /\ ePc = "idle"
    /\ \E err \in MapErrorInputs :
        /\ eErr' = err
        /\ eRes' = mapError(err)
        /\ eRes2' = mapError(mapError(err))
    /\ ePc' = "done"
    /\ UNCHANGED <<pools, mathVars, quoteVars, pathVars, routerVars, retryVars, pollVars,
                   submitVars, cacheVars, fracVars, netVars>>

----------------------------------------------------------------------------
(* FactoryModule (modules/factory.ts): the pair-address cache, and         *)
(* CoralSwapClient.setNetwork (client.ts)                                  *)

Networks == {"testnet", "mainnet"}

(* Token addresses, ordered as their strings are *)
CacheTokens == {1, 2}

(* Bounds on the calls of one behaviour *)
MaxLookups == 2
MaxCacheOps == 2

(* No address: the factory's null *)
NullAddress == 0

(* Map.has(key) is false *)
Absent == -1

sortTokens_KeepsOrder(tokenA, tokenB) == <<tokenA, tokenB>>

(* sortTokens for tokenA # tokenB; identical tokens throw *)
sortTokens(tokenA, tokenB) ==
    IF tokenA < tokenB THEN <<tokenA, tokenB>> ELSE <<tokenB, tokenA>>

CacheKeys == CacheTokens \X CacheTokens

(* The pairs a factory can hold *)
ChainPairs == { k \in CacheKeys : k[1] < k[2] }

(* The address of the pair contract of two tokens on a network *)
PairContract(network, t0, t1) ==
    (IF network = "testnet" THEN 100 ELSE 200) + 10 * t0 + t1

(* FactoryClient.getPair(t0, t1) on the factory of a network: the factory  *)
(* itself orders the tokens.                                               *)
getPair(chain, network, t0, t1) ==
    chain[network][IF t0 < t1 THEN <<t0, t1>> ELSE <<t1, t0>>]

(* An address an application pre-loads *)
PreloadedAddresses == {901}

(* !options.bypassCache && this.cache.has(cacheKey) *)
CacheHit_IgnoresBypass(cache, key, bypassCache) == cache[key] # Absent

CacheHit_NullIsMiss(cache, key, bypassCache) ==
    ~bypassCache /\ cache[key] \notin {Absent, NullAddress}

CacheHit(cache, key, bypassCache) == ~bypassCache /\ cache[key] # Absent

EmptyCache == [k \in CacheKeys |-> Absent]

(* The history of calls and returns *)
Event(op, id, tokenA, tokenB, bypassCache, queried, network, result) ==
    [op |-> op, id |-> id, tokenA |-> tokenA, tokenB |-> tokenB,
     bypassCache |-> bypassCache, queried |-> queried, network |-> network,
     result |-> result]

Lookup(id, tokenA, tokenB, key, network) ==
    [id |-> id, tokenA |-> tokenA, tokenB |-> tokenB, key |-> key, network |-> network]

CacheInit ==
    /\ fNetwork = "testnet"
    /\ fChain = [n \in Networks |-> [k \in ChainPairs |-> NullAddress]]
    /\ fFactory = ""
    /\ fRouter = ""
    /\ fModule = FALSE
    /\ fCache = EmptyCache
    /\ fPending = {}
    /\ fLookups = 0
    /\ fOps = 0
    /\ fLog = <<>>

(* A pair contract is created on a network (by anyone, on chain) *)
PairCreated ==
    /\ \E n \in Networks, k \in ChainPairs :
        /\ fChain[n][k] = NullAddress
        /\ fChain' = [fChain EXCEPT ![n][k] = PairContract(n, k[1], k[2])]
    /\ UNCHANGED <<fNetwork, fFactory, fRouter, fModule, fCache, fPending, fLookups,
                   fOps, fLog>>
    /\ UNCHANGED <<pools, mathVars, quoteVars, pathVars, routerVars, retryVars, pollVars,
                   submitVars, errorVars, fracVars, netVars>>

(* client.getPairAddress(tokenA, tokenB) / factoryModule().getPairAddress  *)
(* up to its await: the cache test, the factory getter and the call of     *)
(* getPair. Identical tokens make sortTokens throw.                        *)
CallGetPairAddress ==
    /\ fLookups < MaxLookups
    /\ \E tokenA \in CacheTokens, tokenB \in CacheTokens, bypassCache \in BOOLEAN :
        LET id == fLookups + 1
        IN  IF tokenA = tokenB
            THEN /\ fLog' = Append(fLog, Event("throw", id, tokenA, tokenB, bypassCache,
                                               FALSE, fNetwork, NullAddress))
                 /\ UNCHANGED <<fFactory, fPending>>
            ELSE LET cacheKey == sortTokens(tokenA, tokenB)
                 IN  IF CacheHit(fCache, cacheKey, bypassCache)
                     THEN /\ fLog' = fLog \o
                               << Event("call", id, tokenA, tokenB, bypassCache, FALSE,
                                        fNetwork, NullAddress),
                                  Event("return", id, tokenA, tokenB, bypassCache, FALSE,
                                        fNetwork, fCache[cacheKey]) >>
                          /\ UNCHANGED <<fFactory, fPending>>
                     ELSE LET factory == IF fFactory = "" THEN fNetwork ELSE fFactory
                          IN  /\ fFactory' = factory
                              /\ fPending' = fPending \cup
                                    {Lookup(id, tokenA, tokenB, cacheKey, factory)}
                              /\ fLog' = Append(fLog,
                                    Event("call", id, tokenA, tokenB, bypassCache, TRUE,
                                          factory, NullAddress))
    /\ fLookups' = fLookups + 1
    /\ fModule' = TRUE
    /\ UNCHANGED <<fNetwork, fChain, fRouter, fCache, fOps>>
    /\ UNCHANGED <<pools, mathVars, quoteVars, pathVars, routerVars, retryVars, pollVars,
                   submitVars, errorVars, fracVars, netVars>>

(* getPair resolves: the address is stored under the key and returned *)
GetPairReturns ==
    /\ \E l \in fPending :
        LET pairAddress == getPair(fChain, l.network, l.key[1], l.key[2])
        IN  /\ fCache' = [fCache EXCEPT ![l.key] = pairAddress]
            /\ fPending' = fPending \ {l}
            /\ fLog' = Append(fLog, Event("return", l.id, l.tokenA, l.tokenB, FALSE, TRUE,
                                          l.network, pairAddress))
    /\ UNCHANGED <<fNetwork, fChain, fFactory, fRouter, fModule, fLookups, fOps>>
    /\ UNCHANGED <<pools, mathVars, quoteVars, pathVars, routerVars, retryVars, pollVars,
                   submitVars, errorVars, fracVars, netVars>>

(* getPair rejects (the RPC failed): getPairAddress rejects, nothing is    *)
(* stored                                                                  *)
GetPairFails ==
    /\ \E l \in fPending :
        /\ fPending' = fPending \ {l}
        /\ fLog' = Append(fLog, Event("reject", l.id, l.tokenA, l.tokenB, FALSE, TRUE,
                                      l.network, NullAddress))
    /\ UNCHANGED <<fNetwork, fChain, fFactory, fRouter, fModule, fCache, fLookups, fOps>>
    /\ UNCHANGED <<pools, mathVars, quoteVars, pathVars, routerVars, retryVars, pollVars,
                   submitVars, errorVars, fracVars, netVars>>

(* factoryModule().preLoadPairs([[a, b, addr]]) *)
PreLoadPairs ==
    /\ fOps < MaxCacheOps
    /\ \E a \in CacheTokens, b \in CacheTokens, addr \in PreloadedAddresses :
        /\ a # b
        /\ fCache' = [fCache EXCEPT ![sortTokens(a, b)] = addr]
        /\ fLog' = Append(fLog, Event("preLoadPairs", 0, a, b, FALSE, FALSE, fNetwork, addr))
    /\ fOps' = fOps + 1
    /\ fModule' = TRUE
    /\ UNCHANGED <<fNetwork, fChain, fFactory, fRouter, fPending, fLookups>>
    /\ UNCHANGED <<pools, mathVars, quoteVars, pathVars, routerVars, retryVars, pollVars,
                   submitVars, errorVars, fracVars, netVars>>

(* factoryModule().clearCache() *)
ClearCache ==
    /\ fOps < MaxCacheOps
    /\ fCache' = EmptyCache
    /\ fLog' = Append(fLog, Event("clearCache", 0, 0, 0, FALSE, FALSE, fNetwork, NullAddress))
    /\ fOps' = fOps + 1
    /\ fModule' = TRUE
    /\ UNCHANGED <<fNetwork, fChain, fFactory, fRouter, fPending, fLookups>>
    /\ UNCHANGED <<pools, mathVars, quoteVars, pathVars, routerVars, retryVars, pollVars,
                   submitVars, errorVars, fracVars, netVars>>

(* The router getter: the RouterClient singleton is built on first use *)
AccessRouter ==
    /\ fRouter = ""
    /\ fRouter' = fNetwork
    /\ UNCHANGED <<fNetwork, fChain, fFactory, fModule, fCache, fPending, fLookups,
                   fOps, fLog>>
    /\ UNCHANGED <<pools, mathVars, quoteVars, pathVars, routerVars, retryVars, pollVars,
                   submitVars, errorVars, fracVars, netVars>>

(* client.setNetwork(network): the singletons are reset and the cache of   *)
(* an existing factory module is cleared.                                  *)
SetNetwork ==
    /\ fOps < MaxCacheOps
    /\ \E network \in Networks :
        /\ fNetwork' = network
        /\ fLog' = Append(fLog, Event("setNetwork", 0, 0, 0, FALSE, FALSE, network,
                                      NullAddress))
    /\ fFactory' = ""
    /\ fRouter' = ""
    /\ fCache' = IF fModule THEN EmptyCache ELSE fCache
    /\ fOps' = fOps + 1
    /\ UNCHANGED <<fChain, fModule, fPending, fLookups>>
    /\ UNCHANGED <<pools, mathVars, quoteVars, pathVars, routerVars, retryVars, pollVars,
                   submitVars, errorVars, fracVars, netVars>>

----------------------------------------------------------------------------
(* Fraction (utils/math.ts): exact rational arithmetic and formatting *)

(* Strings are sequences of characters *)
DigitChars == <<"0", "1", "2", "3", "4", "5", "6", "7", "8", "9">>

RECURSIVE toString(_)
(* bigint.toString() *)
toString(n) ==
    IF n < 0 THEN <<"-">> \o toString(-n)
    ELSE IF n < 10 THEN <<DigitChars[n + 1]>>
    ELSE toString(n \div 10) \o <<DigitChars[(n % 10) + 1]>>

(* '0'.repeat(count) *)
Zeros(count) == [i \in 1..count |-> "0"]

(* str.slice(start, end) and str.slice(start) for indexes >= 0 *)
Slice(str, start, end) == SubSeq(str, Min(start, Len(str)) + 1, Min(end, Len(str)))
SliceFrom(str, start) == Slice(str, start, Len(str))

(* bigint remainder: the sign of the dividend *)
BigIntRem(a, b) == a - b * BigIntDiv(a, b)

ROUND_DOWN == "ROUND_DOWN"
ROUND_HALF_UP == "ROUND_HALF_UP"
ROUND_UP == "ROUND_UP"
Roundings == {ROUND_DOWN, ROUND_HALF_UP, ROUND_UP}

(* new Fraction(numerator, denominator): the denominator is not checked *)
Fraction(numerator, denominator) ==
    [numerator |-> numerator, denominator |-> denominator]

invert(this) == Fraction(this.denominator, this.numerator)

add(this, other) ==
    IF this.denominator = other.denominator
    THEN Fraction(this.numerator + other.numerator, this.denominator)
    ELSE Fraction(this.numerator * other.denominator + other.numerator * this.denominator,
                  this.denominator * other.denominator)

sub(this, other) ==
    IF this.denominator = other.denominator
    THEN Fraction(this.numerator - other.numerator, this.denominator)
    ELSE Fraction(this.numerator * other.denominator - other.numerator * this.denominator,
                  this.denominator * other.denominator)

multiply(this, other) ==
    Fraction(this.numerator * other.numerator, this.denominator * other.denominator)

divide(this, other) ==
    Fraction(this.numerator * other.denominator, this.denominator * other.numerator)

(* divideWithRounding, for denominator # 0 *)
divideWithRounding(numerator, denominator, rounding) ==
    LET remainder == BigIntRem(numerator, denominator)
        numAbs == Abs(numerator)
        denAbs == Abs(denominator)
        remAbs == Abs(remainder)
        increment == CASE rounding = ROUND_DOWN -> 0
                       [] rounding = ROUND_UP -> IF remAbs > 0 THEN 1 ELSE 0
                       [] rounding = ROUND_HALF_UP ->
                            IF remAbs * 2 >= denAbs THEN 1 ELSE 0
        isPositive == (numerator >= 0) = (denominator >= 0)
    IN  IF remainder = 0 THEN BigIntDiv(numerator, denominator)
        ELSE IF isPositive THEN BigIntDiv(numAbs, denAbs) + increment
        ELSE -(BigIntDiv(numAbs, denAbs) + increment)

RECURSIVE ScaleUntilNotBelow(_, _, _)
(* while (n < d) { n *= 10n; shift++; }: the pair <<n, shift>> after it *)
ScaleUntilNotBelow(n, d, shift) ==
    IF n < d THEN ScaleUntilNotBelow(n * 10, d, shift + 1) ELSE <<n, shift>>

toSignificantBelowOne_KeepsShift(sign, n0, d, significantDigits, rounding) ==
    LET scaled == ScaleUntilNotBelow(n0, d, 0)
        power == significantDigits - 1
        n == IF power > 0 THEN scaled[1] * Pow(10, power) ELSE scaled[1]
        quotient == divideWithRounding(n, d, rounding)
        str0 == toString(quotient)
        overflow == Len(str0) > significantDigits
        shift == scaled[2]
        str == IF overflow THEN Slice(str0, 0, significantDigits) ELSE str0
        totalDecimalPlaces == shift + significantDigits - 1
        len == Len(str)
        decimalPos == len - totalDecimalPlaces
    IN  IF shift > 0 THEN sign \o <<"0", ".">> \o Zeros(shift - 1) \o str
        ELSE IF decimalPos <= 0 THEN sign \o <<"0", ".">> \o Zeros(-decimalPos) \o str
        ELSE IF decimalPos >= len THEN sign \o str \o Zeros(decimalPos - len)
        ELSE sign \o Slice(str, 0, decimalPos) \o <<".">> \o SliceFrom(str, decimalPos)

(* toSignificant, the branch for a value below 1 (n < d) *)
toSignificantBelowOne(sign, n0, d, significantDigits, rounding) ==
    LET scaled == ScaleUntilNotBelow(n0, d, 0)
        power == significantDigits - 1
        n == IF power > 0 THEN scaled[1] * Pow(10, power) ELSE scaled[1]
        quotient == divideWithRounding(n, d, rounding)
        str0 == toString(quotient)
        overflow == Len(str0) > significantDigits
        shift == IF overflow THEN scaled[2] - 1 ELSE scaled[2]
        str == IF overflow THEN Slice(str0, 0, significantDigits) ELSE str0
        totalDecimalPlaces == shift + significantDigits - 1
        len == Len(str)
        decimalPos == len - totalDecimalPlaces
    IN  IF shift > 0 THEN sign \o <<"0", ".">> \o Zeros(shift - 1) \o str
        ELSE IF decimalPos <= 0 THEN sign \o <<"0", ".">> \o Zeros(-decimalPos) \o str
        ELSE IF decimalPos >= len THEN sign \o str \o Zeros(decimalPos - len)
        ELSE sign \o Slice(str, 0, decimalPos) \o <<".">> \o SliceFrom(str, decimalPos)

(* toSignificant, the branch for a value of at least 1 (n >= d) *)
toSignificantAtLeastOne(sign, n0, d, significantDigits, rounding) ==
    LET estimate == Len(toString(n0)) - Len(toString(d))
        scale == Pow(10, Max(0, estimate))
        intDigits == IF n0 < d * scale THEN estimate ELSE estimate + 1
    IN  IF intDigits < significantDigits
        THEN LET power == significantDigits - intDigits
                 n == n0 * Pow(10, power)
                 quotient == divideWithRounding(n, d, rounding)
                 str0 == toString(quotient)
                 decimalPos == Len(str0) - power
                 str == IF Len(str0) > significantDigits
                        THEN Slice(str0, 0, significantDigits) ELSE str0
             IN  IF decimalPos >= Len(str) THEN sign \o str
                 ELSE sign \o Slice(str, 0, decimalPos) \o <<".">>
                           \o SliceFrom(str, decimalPos)
        ELSE LET power == intDigits - significantDigits
                 scaledD == d * Pow(10, power)
                 quotient == divideWithRounding(n0, scaledD, rounding)
             IN  sign \o toString(quotient) \o Zeros(power)

(* Fraction.toSignificant for significantDigits >= 0 and a non-zero        *)
(* denominator; a negative significantDigits throws.                       *)
toSignificant(this, significantDigits, rounding) ==
    IF this.numerator = 0 THEN <<"0">>
    ELSE LET isNegative == (this.numerator < 0) # (this.denominator < 0)
             sign == IF isNegative THEN <<"-">> ELSE <<>>
             numerator == Abs(this.numerator)
             denominator == Abs(this.denominator)
         IN  IF numerator < denominator
             THEN toSignificantBelowOne(sign, numerator, denominator,
                                        significantDigits, rounding)
             ELSE toSignificantAtLeastOne(sign, numerator, denominator,
                                          significantDigits, rounding)

(* The operands of the arithmetic: every fraction with a numerator of at   *)
(* most MaxNumerator and a non-zero denominator of at most MaxDenominator  *)
(* in magnitude.                                                           *)
MaxNumerator == 2
MaxDenominator == 2

Fractions ==
    { Fraction(n, d) : n \in -MaxNumerator..MaxNumerator,
                       d \in (-MaxDenominator..MaxDenominator) \ {0} }

(* The values formatted: magnitudes next to a power of ten and plain ones, *)
(* over denominators from 1 to 100000, with 1 to MaxDigits digits.         *)
MaxDigits == 3

FormatNumerators == {1, 5, 12, 95, 99, 123, 949, 995, 999, 1234}
FormatDenominators == {1, 3, 7, 10, 100, 1000, 10000, 100000}

FormatInputs ==
    { Fraction(s * n, d) : s \in {-1, 1}, n \in FormatNumerators,
                           d \in FormatDenominators }

NoFraction == Fraction(0, 1)

FractionInit ==
    /\ xPc = "idle"
    /\ xOp = ""
    /\ xThis = NoFraction
    /\ xOther = NoFraction
    /\ xDigits = 0
    /\ xRounding = ROUND_HALF_UP
    /\ xRes = NoFraction
    /\ xStr = <<>>

FractionCall(op, this, other, res) ==
    /\ xOp' = op
    /\ xThis' = this
    /\ xOther' = other
    /\ xRes' = res
    /\ xPc' = "done"
    /\ UNCHANGED <<xDigits, xRounding, xStr>>
    /\ UNCHANGED <<pools, mathVars, quoteVars, pathVars, routerVars, retryVars, pollVars,
                   submitVars, errorVars, cacheVars, netVars>>

CallAdd ==
    /\ xPc = "idle"
    /\ \E this, other \in Fractions : FractionCall("add", this, other, add(this, other))

CallSub ==
    /\ xPc = "idle"
    /\ \E this, other \in Fractions : FractionCall("sub", this, other, sub(this, other))

CallMultiply ==
    /\ xPc = "idle"
    /\ \E this, other \in Fractions :
          FractionCall("multiply", this, other, multiply(this, other))

CallDivide ==
    /\ xPc = "idle"
    /\ \E this, other \in Fractions :
          FractionCall("divide", this, other, divide(this, other))

CallInvert ==
    /\ xPc = "idle"
    /\ \E this \in Fractions : FractionCall("invert", this, NoFraction, invert(this))

CallToSignificant ==
    /\ xPc = "idle"
    /\ \E this \in FormatInputs, digits \in 1..MaxDigits, rounding \in Roundings :
          /\ xOp' = "toSignificant"
          /\ xThis' = this
          /\ xDigits' = digits
          /\ xRounding' = rounding
          /\ xStr' = toSignificant(this, digits, rounding)
    /\ xPc' = "done"
    /\ UNCHANGED <<xOther, xRes>>
    /\ UNCHANGED <<pools, mathVars, quoteVars, pathVars, routerVars, retryVars, pollVars,
                   submitVars, errorVars, cacheVars, netVars>>

----------------------------------------------------------------------------
(* The client across network switches: which server each call of           *)
(* submitTransaction goes to, the poller singleton and the hash polled.    *)
(* A server is named by the network whose RPC URL it was built with. A     *)
(* call is issued in the continuation that follows the previous await, on  *)
(* the server the client holds at that moment; setNetwork may run between  *)
(* any two continuations. The source account is passed and the signer is   *)
(* configured.                                                             *)

MaxSubmits == 2
MaxSwitches == 1
MaxProbes == 2

Hashes == {1, 2}
NoHash == 0
Ledgers == {6}
NoLedger == -1

(* A log entry: a call issued to a server, a response, a result or a      *)
(* setNetwork                                                              *)
SessionEvent(op, id, server, hash, status, ledger) ==
    [op |-> op, id |-> id, server |-> server, hash |-> hash, status |-> status,
     ledger |-> ledger, dataTxHash |-> NoHash]

(* What getTransaction can answer: status and ledger; "error" is a         *)
(* rejected call                                                           *)
ProbeStatuses ==
    { [status |-> "SUCCESS", ledger |-> l] : l \in Ledgers \cup {NoLedger} }
    \cup { [status |-> s, ledger |-> NoLedger] : s \in {"FAILED", "NOT_FOUND", "error"} }

(* Results of submitTransaction. txHash is the top-level field, NoHash     *)
(* when absent; dataTxHash and ledger are data.txHash and data.ledger.     *)
SessionResult(success, code, txHash, dataTxHash, ledger) ==
    [success |-> success, code |-> code, txHash |-> txHash,
     dataTxHash |-> dataTxHash, ledger |-> ledger]

SessionFailure(code) == SessionResult(FALSE, code, NoHash, NoHash, NoLedger)

NoSessionResult == SessionResult(FALSE, "", NoHash, NoHash, NoLedger)

probeResult_FailedIsSuccess(txHash, status) ==
    CASE status.status \in {"SUCCESS", "FAILED"}
            -> SessionResult(TRUE, "", txHash, txHash,
                             IF status.ledger = NoLedger THEN 0 ELSE status.ledger)
      [] OTHER -> NoSessionResult

(* What poll returns on a probe's answer; NoSessionResult when it goes on  *)
probeResult(txHash, status) ==
    CASE status.status = "SUCCESS"
            -> SessionResult(TRUE, "", txHash, txHash,
                             IF status.ledger = NoLedger THEN 0 ELSE status.ledger)
      [] status.status = "FAILED"
            -> SessionResult(FALSE, "TX_FAILED", txHash, NoHash, NoLedger)
      [] OTHER -> NoSessionResult

(* The result after the last attempt *)
timeoutResult(txHash) == SessionResult(FALSE, "TX_TIMEOUT", txHash, NoHash, NoLedger)

(* client.poller(): the server the poller singleton holds *)
poller(current, server) == IF current = "" THEN server ELSE current

SessionInit ==
    /\ nPc = "idle"
    /\ nNetwork = "testnet"
    /\ nPoller = ""
    /\ nId = 0
    /\ nHash = NoHash
    /\ nAttempt = 0
    /\ nSwitches = 0
    /\ nLog = <<>>

SessionFrame ==
    UNCHANGED <<pools, mathVars, quoteVars, pathVars, routerVars, retryVars, pollVars,
                submitVars, errorVars, cacheVars, fracVars>>

(* The log entry of a result: status is "success" or the error code *)
ResultEvent(id, result) ==
    [op |-> "result", id |-> id, server |-> "", hash |-> result.txHash,
     status |-> IF result.success THEN "success" ELSE result.code,
     ledger |-> result.ledger, dataTxHash |-> result.dataTxHash]

(* The submission ends with a result *)
Returns(result) ==
    /\ nLog' = Append(nLog, ResultEvent(nId, result))
    /\ nPc' = "idle"

(* submitTransaction(operations, source) up to its first await:            *)
(* server.getAccount is called                                             *)
SessionSubmit ==
    /\ nPc = "idle"
    /\ nId < MaxSubmits
    /\ nId' = nId + 1
    /\ nPc' = "getAccount"
    /\ nLog' = nLog \o << SessionEvent("submit", nId + 1, "", NoHash, "", NoLedger),
                          SessionEvent("getAccount", nId + 1, nNetwork, NoHash, "",
                                       NoLedger) >>
    /\ UNCHANGED <<nNetwork, nPoller, nHash, nAttempt, nSwitches>>
    /\ SessionFrame

(* getAccount settles: the transaction is built and simulateTransaction    *)
(* called, or the rejection is caught                                      *)
AccountReturns ==
    /\ nPc = "getAccount"
    /\ \E ok \in BOOLEAN :
        IF ok
        THEN /\ nLog' = Append(nLog, SessionEvent("simulateTransaction", nId, nNetwork,
                                                  NoHash, "", NoLedger))
             /\ nPc' = "simulate"
        ELSE Returns(SessionFailure("UNEXPECTED_ERROR"))
    /\ UNCHANGED <<nNetwork, nPoller, nId, nHash, nAttempt, nSwitches>>
    /\ SessionFrame

(* The simulation settles: on success the signer is asked to sign *)
SimulationReturns ==
    /\ nPc = "simulate"
    /\ \E success \in BOOLEAN :
        IF success
        THEN /\ nPc' = "sign"
             /\ UNCHANGED nLog
        ELSE Returns(SessionFailure("SIMULATION_FAILED"))
    /\ UNCHANGED <<nNetwork, nPoller, nId, nHash, nAttempt, nSwitches>>
    /\ SessionFrame

(* The signer returns the signed XDR: sendTransaction is called *)
SignReturns ==
    /\ nPc = "sign"
    /\ nLog' = Append(nLog, SessionEvent("sendTransaction", nId, nNetwork, NoHash, "",
                                         NoLedger))
    /\ nPc' = "send"
    /\ UNCHANGED <<nNetwork, nPoller, nId, nHash, nAttempt, nSwitches>>
    /\ SessionFrame

(* sendTransaction settles with a status and a hash: on ERROR the result   *)
(* is SUBMIT_FAILED, otherwise pollTransaction(response.hash) takes the    *)
(* poller and the first probe is issued                                    *)
SendReturns ==
    /\ nPc = "send"
    /\ \E status \in {"PENDING", "ERROR"}, hash \in Hashes :
        IF status = "ERROR"
        THEN /\ nLog' = nLog \o
                    << SessionEvent("sent", nId, "", hash, status, NoLedger),
                       ResultEvent(nId, SessionFailure("SUBMIT_FAILED")) >>
             /\ nPc' = "idle"
             /\ UNCHANGED <<nPoller, nHash, nAttempt>>
        ELSE /\ nPoller' = poller(nPoller, nNetwork)
             /\ nHash' = hash
             /\ nAttempt' = 1
             /\ nLog' = nLog \o
                    << SessionEvent("sent", nId, "", hash, status, NoLedger),
                       SessionEvent("getTransaction", nId, poller(nPoller, nNetwork),
                                    hash, "", NoLedger) >>
             /\ nPc' = "probe"
    /\ UNCHANGED <<nNetwork, nId, nSwitches>>
    /\ SessionFrame

(* A probe settles: SUCCESS and FAILED end the poll, anything else waits   *)
(* for the next attempt or, after the last one, times out                  *)
ProbeReturns ==
    /\ nPc = "probe"
    /\ \E status \in ProbeStatuses :
        LET answered == Append(nLog, SessionEvent("status", nId, "", nHash,
                                                  status.status, status.ledger))
            result == probeResult(nHash, status)
            final == IF result # NoSessionResult THEN result ELSE timeoutResult(nHash)
        IN  IF result # NoSessionResult \/ nAttempt >= MaxProbes
            THEN /\ nLog' = Append(answered, ResultEvent(nId, final))
                 /\ nPc' = "idle"
            ELSE /\ nLog' = answered
                 /\ nPc' = "wait"
    /\ UNCHANGED <<nNetwork, nPoller, nId, nHash, nAttempt, nSwitches>>
    /\ SessionFrame

(* The wait between two attempts ends: the next probe is issued *)
WaitEnds ==
    /\ nPc = "wait"
    /\ nAttempt' = nAttempt + 1
    /\ nLog' = Append(nLog, SessionEvent("getTransaction", nId, nPoller, nHash, "",
                                         NoLedger))
    /\ nPc' = "probe"
    /\ UNCHANGED <<nNetwork, nPoller, nId, nHash, nSwitches>>
    /\ SessionFrame

(* client.setNetwork(network): a new server for the network. The poller    *)
(* is not touched.                                                         *)
SessionSetNetwork ==
    /\ nSwitches < MaxSwitches
    /\ \E network \in Networks :
        /\ nNetwork' = network
        /\ nLog' = Append(nLog, SessionEvent("setNetwork", 0, network, NoHash, "",
                                             NoLedger))
    /\ nSwitches' = nSwitches + 1
    /\ UNCHANGED <<nPc, nPoller, nId, nHash, nAttempt>>
    /\ SessionFrame

----------------------------------------------------------------------------
(* Specifications *)

vars == <<pools, mathVars, quoteVars, pathVars, routerVars, retryVars, pollVars, submitVars, errorVars, cacheVars, fracVars, netVars>>

(* The swap math on its own: no pools are involved. *)
InitMath ==
    /\ pools = <<>>
    /\ MathInit /\ QuoteInit /\ PathsInit /\ RouterInit /\ RetryInit /\ PollInit /\ SubmitInit /\ MapErrorInit /\ CacheInit /\ FractionInit /\ SessionInit

MathNext == CallGetAmountOut \/ CallGetAmountIn \/ CallRoundTrip

SpecMath == InitMath /\ [][MathNext]_vars

(* Single quotes against a pool list. *)
InitQuote ==
    /\ pools \in PoolLists(QuoteTokens, MaxQuotePools, QuotePoolShapes, TRUE)
    /\ MathInit /\ QuoteInit /\ PathsInit /\ RouterInit /\ RetryInit /\ PollInit /\ SubmitInit /\ MapErrorInit /\ CacheInit /\ FractionInit /\ SessionInit

QuoteNext == CallGetQuote

SpecQuote == InitQuote /\ [][QuoteNext]_vars

(* Path enumeration over the graphs of a pool list. *)
InitPaths ==
    /\ pools \in PoolLists(Tokens, MaxPathPools, {CHOOSE sh \in PoolShapes : sh.reserve0 = 100}, TRUE)
    /\ MathInit /\ QuoteInit /\ PathsInit /\ RouterInit /\ RetryInit /\ PollInit /\ SubmitInit /\ MapErrorInit /\ CacheInit /\ FractionInit /\ SessionInit

PathsNext == CallFindAllPaths

SpecPaths == InitPaths /\ [][PathsNext]_vars

(* Route selection. *)
Init ==
    /\ pools \in PoolLists(RouterTokens, MaxPools, PoolShapes, FALSE)
    /\ MathInit /\ QuoteInit /\ PathsInit /\ RouterInit /\ RetryInit /\ PollInit /\ SubmitInit /\ MapErrorInit /\ CacheInit /\ FractionInit /\ SessionInit

Next == CallFindOptimalPath \/ QuoteNextPath

Spec == Init /\ [][Next]_vars

(* withRetry on its own. *)
InitRetry ==
    /\ pools = <<>>
    /\ MathInit /\ QuoteInit /\ PathsInit /\ RouterInit /\ RetryInit /\ PollInit /\ SubmitInit /\ MapErrorInit /\ CacheInit /\ FractionInit /\ SessionInit

RetryNext ==
    CallWithRetry \/ AttemptSucceeds \/ AttemptFails \/ RetryDelayElapsed

SpecRetry == InitRetry /\ [][RetryNext]_vars

(* TransactionPoller.poll on its own. *)
InitPoll ==
    /\ pools = <<>>
    /\ MathInit /\ QuoteInit /\ PathsInit /\ RouterInit /\ RetryInit /\ PollInit /\ SubmitInit /\ MapErrorInit /\ CacheInit /\ FractionInit /\ SessionInit

PollNext == CallPoll \/ Probe \/ PollWaitElapsed

SpecPoll == InitPoll /\ [][PollNext]_vars

(* submitTransaction on its own. *)
InitSubmit ==
    /\ pools = <<>>
    /\ MathInit /\ QuoteInit /\ PathsInit /\ RouterInit /\ RetryInit /\ PollInit /\ SubmitInit /\ MapErrorInit /\ CacheInit /\ FractionInit /\ SessionInit

SubmitNext ==
    \/ CallSubmitTransaction \/ SignerPublicKey \/ GetAccount
    \/ Simulate \/ Sign \/ Send \/ PollTransaction

SpecSubmit == InitSubmit /\ [][SubmitNext]_vars

(* mapError on its own. *)
InitErrors ==
    /\ pools = <<>>
    /\ MathInit /\ QuoteInit /\ PathsInit /\ RouterInit /\ RetryInit /\ PollInit /\ SubmitInit /\ MapErrorInit /\ CacheInit /\ FractionInit /\ SessionInit

ErrorsNext == CallMapError

SpecErrors == InitErrors /\ [][ErrorsNext]_vars

(* The pair cache and setNetwork on their own. *)
InitCache ==
    /\ pools = <<>>
    /\ MathInit /\ QuoteInit /\ PathsInit /\ RouterInit /\ RetryInit /\ PollInit /\ SubmitInit /\ MapErrorInit /\ CacheInit /\ FractionInit /\ SessionInit

CacheNext ==
    \/ PairCreated \/ CallGetPairAddress \/ GetPairReturns \/ GetPairFails
    \/ PreLoadPairs \/ ClearCache \/ AccessRouter \/ SetNetwork

SpecCache == InitCache /\ [][CacheNext]_vars

(* Fraction arithmetic and formatting on their own *)
InitFraction ==
    /\ pools = <<>>
    /\ MathInit /\ QuoteInit /\ PathsInit /\ RouterInit /\ RetryInit /\ PollInit /\ SubmitInit /\ MapErrorInit /\ CacheInit /\ FractionInit /\ SessionInit

FractionNext ==
    \/ CallAdd \/ CallSub \/ CallMultiply \/ CallDivide \/ CallInvert
    \/ CallToSignificant

SpecFraction == InitFraction /\ [][FractionNext]_vars


(* Submissions and network switches of one client *)
InitSession ==
    /\ pools = <<>>
    /\ MathInit /\ QuoteInit /\ PathsInit /\ RouterInit /\ RetryInit /\ PollInit /\ SubmitInit /\ MapErrorInit /\ CacheInit /\ FractionInit /\ SessionInit

SessionNext ==
    \/ SessionSubmit \/ AccountReturns \/ SimulationReturns \/ SignReturns
    \/ SendReturns \/ ProbeReturns \/ WaitEnds \/ SessionSetNetwork

SpecSession == InitSession /\ [][SessionNext]_vars


----------------------------------------------------------------------------
(* Claims about the quote math, checked under SpecMath *)

ValidOutCall ==
    /\ mFn = "getAmountOut"
    /\ mArgs.amount > 0 /\ mArgs.reserveIn > 0 /\ mArgs.reserveOut > 0

ValidInArgs ==
    /\ mArgs.reserveIn > 0 /\ mArgs.reserveOut > 0
    /\ mArgs.amount > 0 /\ mArgs.amount < mArgs.reserveOut

(* C1: for amountIn > 0, positive reserves and feeBps in 0..10000 the      *)
(* constant product never decreases:                                       *)
(* (reserveIn + amountIn) * (reserveOut - out) >= reserveIn * reserveOut.  *)
C1_ProductNeverDecreases ==
    ValidOutCall =>
        /\ mRes.ok
        /\ (mArgs.reserveIn + mArgs.amount) * (mArgs.reserveOut - mRes.val)
              >= mArgs.reserveIn * mArgs.reserveOut

C1_Witness ==
    /\ ValidOutCall
    /\ mArgs.feeBps = 30
    /\ mRes.ok /\ mRes.val > 0
    /\ (mArgs.reserveIn + mArgs.amount) * (mArgs.reserveOut - mRes.val)
          > mArgs.reserveIn * mArgs.reserveOut

C3_ExactFormula ==
    ValidOutCall =>
        /\ mRes = Ok((mArgs.amount * (10000 - mArgs.feeBps) * mArgs.reserveOut)
                     \div (mArgs.reserveIn * 10000
                           + mArgs.amount * (10000 - mArgs.feeBps)))
        /\ mArgs.feeBps = 10000 => mRes.val = 0
        /\ mArgs.feeBps = 0 =>
              mRes.val = (mArgs.amount * mArgs.reserveOut)
                            \div (mArgs.reserveIn + mArgs.amount)

C3_Witness ==
    /\ ValidOutCall
    /\ mArgs.feeBps = 0
    /\ mRes.ok /\ mRes.val > 0
    /\ (mArgs.amount * mArgs.reserveOut) % (mArgs.reserveIn + mArgs.amount) # 0

(* C4: getAmountIn with positive reserves and amountOut >= reserveOut      *)
(* fails with 'Insufficient reserve for output', for every feeBps.         *)
C4_InsufficientReserve ==
    (/\ mFn = "getAmountIn"
     /\ mArgs.reserveIn > 0 /\ mArgs.reserveOut > 0
     /\ mArgs.amount >= mArgs.reserveOut)
        => mRes = Err("Insufficient reserve for output")

C4_Witness ==
    /\ mFn = "getAmountIn"
    /\ mArgs.reserveIn > 0 /\ mArgs.reserveOut > 0
    /\ mArgs.amount = mArgs.reserveOut
    /\ mArgs.feeBps = 10000
    /\ mRes = Err("Insufficient reserve for output")

(* C5: getAmountOut fails with 'Insufficient input amount' exactly when    *)
(* amountIn <= 0 (whatever the reserves); otherwise with 'Insufficient     *)
(* liquidity' exactly when a reserve is <= 0; otherwise it returns an      *)
(* amount.                                                                 *)
C5_PreconditionOrder ==
    mFn = "getAmountOut" =>
        /\ (mRes = Err("Insufficient input amount")) <=> (mArgs.amount <= 0)
        /\ (mRes = Err("Insufficient liquidity")) <=>
              (mArgs.amount > 0 /\ (mArgs.reserveIn <= 0 \/ mArgs.reserveOut <= 0))
        /\ mRes.ok <=>
              (mArgs.amount > 0 /\ mArgs.reserveIn > 0 /\ mArgs.reserveOut > 0)

C5_Witness ==
    /\ mFn = "getAmountOut"
    /\ mArgs.amount <= 0
    /\ mArgs.reserveIn <= 0
    /\ mRes = Err("Insufficient input amount")

----------------------------------------------------------------------------
(* Claims about getQuote, checked under SpecQuote *)

(* The slippage tolerance of the request: the caller's value, or else the  *)
(* configured default.                                                     *)
RequestedSlippage ==
    IF qReq.slippageBps # <<>> THEN qReq.slippageBps[1]
    ELSE IF qReq.configSlippage # <<>> THEN qReq.configSlippage[1]
    ELSE DEFAULTS_slippageBps

----------------------------------------------------------------------------
(* Claims about findOptimalPath, checked under Spec *)

ValidCandidates == {i \in 1..Len(rLog) : rLog[i].ok}

(* C7: findOptimalPath returns the candidate whose quoted amountOut is the *)
(* largest among the candidates that produced a valid quote, the first     *)
(* enumerated among equal ones, and null when there is no candidate or no  *)
(* candidate produced a valid quote.                                       *)
C7_SelectsLargestFirst ==
    (rPc = "done" /\ rResult.kind \in {"path", "null"}) =>
        /\ Len(rLog) = Len(rPaths)
        /\ \A i \in 1..Len(rLog) : rLog[i].path = rPaths[i]
        /\ IF ValidCandidates = {}
           THEN rResult.kind = "null"
           ELSE /\ rResult.kind = "path"
                /\ \E i \in ValidCandidates :
                    /\ rResult.path = rLog[i].path
                    /\ rResult.quote = rLog[i].quote
                    /\ \A j \in ValidCandidates :
                        /\ rLog[j].quote.amountOut <= rLog[i].quote.amountOut
                        /\ j < i => rLog[j].quote.amountOut < rLog[i].quote.amountOut

C7_Witness ==
    /\ rPc = "done" /\ rResult.kind = "path"
    /\ Len(rLog) = 2
    /\ rLog[1].ok /\ rLog[2].ok
    /\ rLog[1].quote.amountOut = rLog[2].quote.amountOut
    /\ rResult.path = rLog[1].path
    /\ rResult.path # rLog[2].path

(* C8: a candidate whose quote fails is dropped: the failure is not        *)
(* propagated to the caller, every later candidate is still evaluated and  *)
(* can be selected, and a failed candidate is never the result.            *)
C8_FailedCandidateDropped ==
    /\ rPc = "quoting" =>
          /\ rResult = RPending
          /\ Len(rLog) = rIdx - 1
          /\ rIdx <= Len(rPaths)
    /\ (rPc = "done" /\ rLog # <<>>) =>
          /\ rResult.kind \in {"path", "null"}
          /\ Len(rLog) = Len(rPaths)
          /\ \A i \in 1..Len(rLog) : rLog[i].path = rPaths[i]
          /\ rResult.kind = "path" =>
                \E i \in ValidCandidates : rResult.path = rLog[i].path

C8_Witness ==
    /\ rPc = "done"
    /\ Len(rLog) >= 2
    /\ ~rLog[1].ok
    /\ rLog[1].err = "Insufficient liquidity"
    /\ rResult.kind = "path"
    /\ rResult.path = rLog[2].path

(* C9: findOptimalPath called with a trade type other than EXACT_IN is     *)
(* rejected with a ValidationError and produces no path or quote.          *)
C9_ExactOutRejected ==
    (rPc # "idle" /\ rReq.tradeType # "EXACT_IN") =>
        /\ rPc = "done"
        /\ rResult = RThrow("ValidationError")
        /\ rPaths = <<>>
        /\ rLog = <<>>
        /\ ~rBest.found

C9_Witness ==
    /\ rPc = "done"
    /\ rReq.tradeType = "EXACT_OUT"
    /\ getPairAddress(rReq.tokenIn, rReq.tokenOut) # 0
    /\ rResult = RThrow("ValidationError")

----------------------------------------------------------------------------
(* Claims about findAllPaths, checked under SpecPaths *)

(* The simple paths of n tokens that leave start: no token repeats and     *)
(* consecutive tokens are neighbours in the graph.                         *)
RECURSIVE SimplePathsOfLength(_, _, _)
SimplePathsOfLength(start, graph, n) ==
    IF n = 1 THEN {<<start>>}
    ELSE UNION { { Append(p, t) :
                     t \in {u \in Tokens : Includes(graph[p[Len(p)]], u) /\ ~Includes(p, u)} }
                 : p \in SimplePathsOfLength(start, graph, n - 1) }

(* The simple paths from start to end of at least one and at most maxHops  *)
(* hops.                                                                   *)
SimplePaths(start, end, graph, maxHops) ==
    UNION { {p \in SimplePathsOfLength(start, graph, n) : p[n] = end}
            : n \in 2..(maxHops + 1) }

PathsFound == {pRes[i] : i \in 1..Len(pRes)}

(* C10: findAllPaths returns every simple path from start to end of at     *)
(* most maxHops hops, each exactly once.                                   *)
C10_AllSimplePathsOnce ==
    pPc = "done" =>
        /\ PathsFound = SimplePaths(pArgs.start, pArgs.end, pArgs.graph, pArgs.maxHops)
        /\ Len(pRes) = Cardinality(PathsFound)

C10_Witness ==
    /\ pPc = "done"
    /\ pArgs.maxHops = 2
    /\ \E i, j \in 1..Len(pRes) : Len(pRes[i]) = 2 /\ Len(pRes[j]) = 3
    /\ SimplePaths(pArgs.start, pArgs.end, pArgs.graph, 3) # PathsFound

(* C11: every path findAllPaths returns starts at the source token, ends   *)
(* at the destination token, has at least 2 tokens and at most maxHops     *)
(* hops, repeats no token, and joins consecutive tokens by a pool of the   *)
(* graph; tokens connected only by more than maxHops hops yield no path.   *)
C11_PathsAreSound ==
    pPc = "done" =>
        /\ \A k \in 1..Len(pRes) :
            LET path == pRes[k]
            IN  /\ Len(path) >= 2
                /\ Len(path) - 1 <= pArgs.maxHops
                /\ path[1] = pArgs.start
                /\ path[Len(path)] = pArgs.end
                /\ \A i, j \in 1..Len(path) : i # j => path[i] # path[j]
                /\ \A i \in 1..(Len(path) - 1) :
                    \E n \in 1..Len(pools) :
                        {pools[n].token0, pools[n].token1} = {path[i], path[i + 1]}
        /\ SimplePaths(pArgs.start, pArgs.end, pArgs.graph, pArgs.maxHops) = {}
              => pRes = <<>>

C11_Witness ==
    /\ pPc = "done"
    /\ pArgs.maxHops = 3
    /\ pRes = <<>>
    /\ Len(pools) = 4
    /\ SimplePaths(pArgs.start, pArgs.end, pArgs.graph, 4) # {}

----------------------------------------------------------------------------
(* Claims about withRetry, checked under SpecRetry *)

RaisedRetryable(i) == Classify(wVariant, wRaised[i]) = Classified(TRUE)

(* C12: withRetry invokes the wrapped operation at most maxRetries + 1     *)
(* times, and exactly maxRetries + 1 times when every invocation fails     *)
(* with a retryable error.                                                 *)
C12_AtMostMaxRetriesPlusOne ==
    /\ wCalls <= wCfg.maxRetries + 1
    /\ (/\ wPc = "done"
        /\ Len(wRaised) = wCalls
        /\ \A i \in 1..Len(wRaised) : RaisedRetryable(i))
          => wCalls = wCfg.maxRetries + 1

C12_Witness ==
    /\ wPc = "done"
    /\ wCfg.maxRetries = 2
    /\ wCalls = 3
    /\ Len(wRaised) = 3
    /\ \A i \in 1..3 : RaisedRetryable(i)
    /\ wResult.kind = "rejected"

(* C13: when an invocation fails with an error that is not retryable,      *)
(* withRetry rejects at once: no delay is awaited after it and the         *)
(* operation is not invoked again, however many retries remain.            *)
C13_FatalRejectsAtOnce ==
    \A i \in 1..Len(wRaised) :
        Classify(wVariant, wRaised[i]) = Classified(FALSE) =>
            /\ i = Len(wRaised)
            /\ wPc = "done"
            /\ wResult.kind = "rejected"
            /\ wCalls = i
            /\ Len(wDelays) = i - 1

C13_Witness ==
    /\ wPc = "done"
    /\ wCfg.maxRetries = 2
    /\ wCalls = 2
    /\ Len(wRaised) = 2
    /\ RaisedRetryable(1)
    /\ Classify(wVariant, wRaised[2]) = Classified(FALSE)
    /\ Len(wDelays) = 1
    /\ wResult = WRejected(wRaised[2])

(* C14: whenever withRetry rejects, the rejection value is the error the   *)
(* last invocation of the wrapped operation raised, for every error value  *)
(* the operation may raise.                                                *)
C14_RejectsWithLastError ==
    wResult.kind = "rejected" =>
        /\ wRaised # <<>>
        /\ wResult.error = wRaised[Len(wRaised)]

(* C15: the delay awaited after failed attempt i (0-indexed) is            *)
(* min(maxDelay, baseDelay * backoffMultiplier^i) before jitter; no delay  *)
(* is awaited before the first attempt or after the last one.              *)
C15_BackoffSchedule ==
    /\ \A k \in 1..Len(wDelays) :
        /\ wDelays[k].after = k
        /\ wDelays[k].backoff =
              Min(wCfg.maxDelay, wCfg.baseDelay * Pow(wCfg.multiplier, k - 1))
        /\ wVariant = "ledger" => wDelays[k].delay = wDelays[k].backoff
        /\ 100 * Abs(wDelays[k].delay - wDelays[k].backoff) <= 15 * wDelays[k].backoff
    /\ wPc \in {"calling", "delaying"} => Len(wDelays) = wCalls
    /\ wPc = "delaying" => wCalls <= wCfg.maxRetries
    /\ (wPc = "done" /\ wCalls >= 1) => Len(wDelays) = wCalls - 1

C15_Witness ==
    /\ wPc = "done"
    /\ wVariant = "ledger"
    /\ wCfg = [maxRetries |-> 2, baseDelay |-> 5, maxDelay |-> 10000, multiplier |-> 2]
    /\ wCalls = 3
    /\ wResult.kind = "rejected"
    /\ Len(wDelays) = 2
    /\ wDelays[1].delay = 5
    /\ wDelays[2].delay = 10

----------------------------------------------------------------------------
(* Claims about TransactionPoller.poll, checked under SpecPoll *)

TimedOut == tResult = TFailure(tHash, "TX_TIMEOUT")

(* C16: poll issues at most maxAttempts probes, and its result is          *)
(* TX_TIMEOUT exactly when all maxAttempts probes were non-terminal;       *)
(* TX_FAILED is reported only for a probe that reported FAILED.            *)
C16_TimeoutAfterMaxAttempts ==
    /\ tProbes <= tCfg.maxAttempts
    /\ tPc = "done" =>
          /\ TimedOut <=> tNonTerminal = tCfg.maxAttempts
          /\ tResult.code = "TX_TIMEOUT" => TimedOut /\ ~IsTerminal(tLast)
          /\ tResult.code = "TX_FAILED" => tLast.kind = "FAILED"

C16_Witness ==
    /\ tPc = "done"
    /\ tCfg.maxAttempts = 3
    /\ tProbes = 3
    /\ tLast.kind = "UNKNOWN"
    /\ ~tAllRejected
    /\ TimedOut

(* C17: the first probe that reports SUCCESS or FAILED ends the poll:      *)
(* poll returns success with that probe's ledger (0 when the probe has     *)
(* none) and the tx hash, or failure with code TX_FAILED and the tx hash,  *)
(* and no probe follows.                                                   *)
C17_TerminalProbeEndsPoll ==
    IsTerminal(tLast) =>
        /\ tPc = "done"
        /\ tNonTerminal = tProbes - 1
        /\ tLast.kind = "SUCCESS" =>
              /\ tResult.kind = "success"
              /\ tResult.txHash = tHash
              /\ tResult.ledger = IF tLast.ledger = <<>> THEN 0 ELSE tLast.ledger[1]
        /\ tLast.kind = "FAILED" =>
              /\ tResult.kind = "failure"
              /\ tResult.code = "TX_FAILED"
              /\ tResult.txHash = tHash

C17_Witness ==
    /\ tPc = "done"
    /\ tHash = "TX_B"
    /\ tProbes = 3
    /\ tCfg.maxAttempts = 30
    /\ tLast = ProbeOutcome("SUCCESS", <<101>>)
    /\ tResult = TSuccess("TX_B", 101)

(* C18: a probe that rejects counts as still pending: it uses up one       *)
(* attempt, polling goes on with the next attempt, poll never rejects,     *)
(* and when every probe rejects the result is TX_TIMEOUT.                  *)
C18_ProbeErrorIsPending ==
    /\ tResult.kind # "rejected"
    /\ tLast.kind = "rejects" =>
          /\ tNonTerminal = tProbes
          /\ \/ tPc = "waiting" /\ tAttempt = tProbes /\ tAttempt < tCfg.maxAttempts
             \/ tPc = "probing" /\ tAttempt = tProbes + 1 /\ tAttempt <= tCfg.maxAttempts
             \/ tPc = "done" /\ tProbes = tCfg.maxAttempts /\ TimedOut
    /\ (tPc = "done" /\ tAllRejected) => (TimedOut /\ tProbes = tCfg.maxAttempts)

C18_Witness ==
    /\ tPc = "done"
    /\ tAllRejected
    /\ tCfg.maxAttempts = 3
    /\ tProbes = 3
    /\ Len(tWaits) = 2
    /\ TimedOut

RECURSIVE SumSeq(_)
SumSeq(seq) == IF seq = <<>> THEN 0 ELSE Head(seq) + SumSeq(Tail(seq))

(* C19: poll waits exactly once between two consecutive probes and never   *)
(* after the final probe; under LINEAR every wait equals interval, so a    *)
(* terminal status first seen on probe k is returned after k - 1 waits of  *)
(* interval.                                                               *)
C19_OneWaitBetweenProbes ==
    /\ tPc \in {"probing", "waiting"} => Len(tWaits) = tProbes
    /\ (tPc = "done" /\ tProbes >= 1) => Len(tWaits) = tProbes - 1
    /\ tCfg.strategy = "LINEAR" =>
          /\ \A k \in 1..Len(tWaits) : tWaits[k] = tCfg.interval
          /\ (tPc = "done" /\ IsTerminal(tLast)) =>
                SumSeq(tWaits) = (tProbes - 1) * tCfg.interval

C19_Witness ==
    /\ tPc = "done"
    /\ tCfg.strategy = "LINEAR"
    /\ tCfg.interval = 100
    /\ tProbes = 4
    /\ tNonTerminal = 3
    /\ tResult.kind = "success"
    /\ tWaits = <<100, 100, 100>>
    /\ SumSeq(tWaits) = 300

(* interval * backoffFactor^n, the multiplication stopped once the value   *)
(* is above cap (backoffFactor >= 1 keeps it above)                        *)
RECURSIVE GrowthUpTo(_, _, _, _)
GrowthUpTo(interval, backoffFactor, n, cap) ==
    IF n = 0 \/ interval > cap THEN interval
    ELSE GrowthUpTo(interval * backoffFactor, backoffFactor, n - 1, cap)

(* C20: under EXPONENTIAL the wait after the j-th non-terminal probe is    *)
(* interval * backoffFactor^(j-1) capped at maxInterval, so no wait        *)
(* exceeds maxInterval, for every interval, backoffFactor >= 1 and         *)
(* maxInterval.                                                            *)
C20_ExponentialWaitsCapped ==
    tCfg.strategy = "EXPONENTIAL" =>
        \A j \in 1..Len(tWaits) :
            /\ tWaits[j] = Min(GrowthUpTo(tCfg.interval, tCfg.backoffFactor, j - 1,
                                          tCfg.maxInterval),
                               tCfg.maxInterval)
            /\ tWaits[j] <= tCfg.maxInterval

----------------------------------------------------------------------------
(* Claims about submitTransaction (specification SpecSubmit) *)

CallCount(name) == Cardinality({ i \in 1..Len(sCalls) : sCalls[i] = name })

Called(name) == CallCount(name) > 0

(* The position of a step in simulate, sign, broadcast, confirm; 0 for the *)
(* calls before them.                                                      *)
StepRank(name) ==
    CASE name = "simulateTransaction" -> 1
      [] name = "signTransaction" -> 2
      [] name = "sendTransaction" -> 3
      [] name = "pollTransaction" -> 4
      [] OTHER -> 0

(* C21 as stated: submitTransaction never rejects; whatever step raises,   *)
(* it resolves to exactly one failure result with code UNEXPECTED_ERROR    *)
(* whose message is the message of the raised value.                       *)
C21_CarriesRaisedMessage ==
    /\ sResult.kind # "rejected"
    /\ sRaised # NoRaise =>
        /\ sPc = "done"
        /\ sReturns = 1
        /\ sResult = SubmitFailure("UNEXPECTED_ERROR", sRaised.message)

(* C22: the steps run in the order simulate, sign, broadcast, confirm;     *)
(* sendTransaction is called at most once, and only after a successful     *)
(* simulation and a signTransaction that returned; a failed simulation     *)
(* gives SIMULATION_FAILED and a missing signer NO_SIGNER, both without a  *)
(* broadcast; polling starts only after sendTransaction returned a status  *)
(* other than ERROR, and ERROR gives SUBMIT_FAILED without polling.        *)
C22_StepsGateEachOther ==
    /\ \A i, j \in 1..Len(sCalls) :
          i < j => StepRank(sCalls[i]) < StepRank(sCalls[j]) \/ StepRank(sCalls[j]) = 0
    /\ CallCount("sendTransaction") <= 1
    /\ \A i \in 1..Len(sCalls) :
          sCalls[i] = "sendTransaction" =>
              /\ sSim = "success"
              /\ i > 2
              /\ sCalls[i - 1] = "signTransaction"
              /\ sCalls[i - 2] = "simulateTransaction"
    /\ sSim = "failed" =>
          /\ sResult = SubmitFailure("SIMULATION_FAILED", "Transaction simulation failed")
          /\ ~Called("signTransaction")
          /\ ~Called("sendTransaction")
    /\ sSim = "success" /\ sCfg.signer = "none" =>
          /\ sResult.kind = "returned"
          /\ sResult.code = "NO_SIGNER"
          /\ ~Called("signTransaction")
          /\ ~Called("sendTransaction")
    /\ \A i \in 1..Len(sCalls) :
          sCalls[i] = "pollTransaction" =>
              /\ sSend \in SendStatuses \ {"ERROR"}
              /\ i > 1
              /\ sCalls[i - 1] = "sendTransaction"
    /\ sSend = "ERROR" =>
          /\ sResult = SubmitFailure("SUBMIT_FAILED", "Transaction submission failed")
          /\ ~Called("pollTransaction")

(* A submission that went through all four steps and was confirmed *)
C22_Witness ==
    /\ sPc = "done"
    /\ sResult = SubmitSuccess
    /\ sSend = "PENDING"
    /\ Called("simulateTransaction")
    /\ Called("signTransaction")
    /\ Called("sendTransaction")
    /\ Called("pollTransaction")

----------------------------------------------------------------------------
(* Claims about the errors getQuote raises (specification SpecQuote) *)

(* C23 as stated: every failure getQuote surfaces to its caller (no pool   *)
(* for the pair, non-positive amount, empty reserves, output not below the *)
(* reserve) is an instance of one of the typed SDK error classes.          *)
C23_QuoteFailuresTyped ==
    qPc = "done" /\ ~qRes.ok => ThrownClass(qRes.err) \in SDKErrorClasses

----------------------------------------------------------------------------
(* Claims about mapError (specification SpecErrors) *)

(* The message a raw error carries: the string itself, or its message      *)
(* property.                                                               *)
RawMessage(err) == IF err.shape = "null" THEN <<"null">> ELSE err.message

(* C24: mapError returns an already-typed SDK error unchanged, the same    *)
(* object, and mapError(mapError(e)) = mapError(e) for every input e.      *)
C24_TypedPassThrough ==
    ePc = "done" =>
        /\ eErr.shape = "sdk" => eRes = eErr
        /\ eRes2 = eRes

(* A ValidationError whose message would match the deadline rule *)
C24_Witness ==
    /\ ePc = "done"
    /\ eErr = SDKError("ValidationError", "VALIDATION_ERROR", <<"Deadline passed">>,
                       "caller", <<>>)
    /\ eRes = eErr
    /\ eRes2 = eErr

(* C25: when the raw message carries a contract error code that is in the  *)
(* code table, mapError returns the table's class for that code, whatever  *)
(* search terms the message also contains; the substring rules decide only *)
(* when no code is found or the code is not in the table.                  *)
C25_CodeTableBeforeHeuristics ==
    ePc = "done" /\ eErr.shape # "sdk" =>
        LET code == extractErrorCode(eErr)
        IN  IF code # 0 /\ ContractErrorClass(code) # ""
            THEN /\ eRes.class = ContractErrorClass(code)
                 /\ eRes = mapContractError(code)
            ELSE eRes.class = HeuristicClass(MessageOf(eErr))

(* Code 106 after words of the deadline rule gives the table's class *)
C25_Witness ==
    /\ ePc = "done"
    /\ eErr = RawError("Error", <<"Deadline passed", "Error(Contract, #106)">>)
    /\ HeuristicClass(MessageOf(eErr)) = "DeadlineError"
    /\ eRes.class = "InsufficientLiquidityError"

(* C26 as stated: mapError maps a raw message carrying contract error code *)
(* 101 to InsufficientLiquidityError, 102 to SlippageError, 103 to         *)
(* DeadlineError and 106 to FlashLoanError.                                *)
C26_TestedCodes ==
    ePc = "done" =>
        /\ eErr = RawError("string", <<"Error(Contract, #101)">>)
               => eRes.class = "InsufficientLiquidityError"
        /\ eErr = RawError("string", <<"Error(Contract, #102)">>)
               => eRes.class = "SlippageError"
        /\ eErr = RawError("string", <<"Error(Contract, #103)">>)
               => eRes.class = "DeadlineError"
        /\ eErr = RawError("string", <<"Error(Contract, #106)">>)
               => eRes.class = "FlashLoanError"

(* C27 as stated: when no classification rule matches, mapError returns an *)
(* error of kind Unknown (class CoralSwapSDKError, code UNKNOWN_ERROR)      *)
(* whose message equals the raw message and whose details hold the raw     *)
(* error; mapError always returns one error of a class of the taxonomy.    *)
C27_DefaultUnknown ==
    ePc = "done" =>
        /\ eRes.shape = "sdk"
        /\ eRes.class \in SDKErrorClasses
        /\ eErr.shape # "sdk" /\ eRes.class = "CoralSwapSDKError" =>
              /\ eRes.code = "UNKNOWN_ERROR"
              /\ eRes.message = RawMessage(eErr)
              /\ eRes.original = <<eErr>>

----------------------------------------------------------------------------
(* Claims about the pair cache (specification SpecCache) *)

Events == 1..Len(fLog)

SamePair(e, f) == {e.tokenA, e.tokenB} = {f.tokenA, f.tokenB}

(* No event strictly between i and j has its op in ops *)
NoOpBetween(i, j, ops) == \A k \in (i + 1)..(j - 1) : fLog[k].op \notin ops

(* No event strictly between i and j stores an address for the pair of e:  *)
(* a getPair that returned, or preLoadPairs                                *)
NoStoreBetween(i, j, e) ==
    \A k \in (i + 1)..(j - 1) :
        ~ /\ SamePair(fLog[k], e)
          /\ \/ fLog[k].op = "preLoadPairs"
             \/ fLog[k].op = "return" /\ fLog[k].queried

(* The lookup called at j was answered from the cache with address addr *)
AnsweredFromCache(j, addr) ==
    /\ ~fLog[j].queried
    /\ \A r \in Events :
          fLog[r].op = "return" /\ fLog[r].id = fLog[j].id => fLog[r].result = addr

(* C28 as stated: once a lookup of a pair has completed, every later       *)
(* lookup of that pair without bypassCache, with no clearCache and no      *)
(* setNetwork in between, returns the same address and does not query the  *)
(* factory; a lookup with bypassCache always queries the factory.          *)
C28_CachedUntilCleared ==
    /\ \A i, j \in Events :
          /\ i < j
          /\ fLog[i].op = "return"
          /\ fLog[j].op = "call"
          /\ SamePair(fLog[i], fLog[j])
          /\ ~fLog[j].bypassCache
          /\ NoOpBetween(i, j, {"clearCache", "setNetwork"})
          => AnsweredFromCache(j, fLog[i].result)
    /\ \A j \in Events : fLog[j].op = "call" /\ fLog[j].bypassCache => fLog[j].queried

(* C28: once a lookup of a pair has completed, every later lookup of that  *)
(* pair without bypassCache does not query the factory as long as no       *)
(* clearCache and no setNetwork came in between, and it returns the same   *)
(* address if moreover nothing stored an address for the pair in between   *)
(* (a getPair that returned, for a bypassCache or a concurrent lookup, or  *)
(* preLoadPairs); a lookup with bypassCache always queries the factory.    *)
C28_CachedUntilOverwritten ==
    /\ \A i, j \in Events :
          /\ i < j
          /\ fLog[i].op = "return"
          /\ fLog[j].op = "call"
          /\ SamePair(fLog[i], fLog[j])
          /\ ~fLog[j].bypassCache
          /\ NoOpBetween(i, j, {"clearCache", "setNetwork"})
          => /\ ~fLog[j].queried
             /\ NoStoreBetween(i, j, fLog[i]) => AnsweredFromCache(j, fLog[i].result)
    /\ \A j \in Events : fLog[j].op = "call" /\ fLog[j].bypassCache => fLog[j].queried

(* A lookup answered by the factory, then the same lookup answered from    *)
(* the cache                                                               *)
C28_Witness ==
    /\ Len(fLog) = 4
    /\ fLog[1].op = "call" /\ fLog[1].queried
    /\ fLog[2].op = "return" /\ fLog[2].result = PairContract("testnet", 1, 2)
    /\ fLog[3].op = "call" /\ ~fLog[3].bypassCache /\ ~fLog[3].queried
    /\ fLog[3].tokenA = fLog[1].tokenA /\ fLog[3].tokenB = fLog[1].tokenB
    /\ fLog[4].op = "return" /\ fLog[4].result = PairContract("testnet", 1, 2)

(* C29: the cache is keyed by the unordered pair: after a lookup of (A, B) *)
(* has completed, a lookup of (B, A) without bypassCache is answered from  *)
(* the same entry, without a query and with the same address (nothing      *)
(* clearing or overwriting the entry in between).                          *)
C29_UnorderedKey ==
    \A i, j \in Events :
        /\ i < j
        /\ fLog[i].op = "return"
        /\ fLog[j].op = "call"
        /\ fLog[j].tokenA = fLog[i].tokenB
        /\ fLog[j].tokenB = fLog[i].tokenA
        /\ ~fLog[j].bypassCache
        /\ NoOpBetween(i, j, {"clearCache", "setNetwork"})
        /\ NoStoreBetween(i, j, fLog[i])
        => AnsweredFromCache(j, fLog[i].result)

(* (A, B) answered by the factory, then (B, A) answered from the cache *)
C29_Witness ==
    /\ Len(fLog) = 4
    /\ fLog[1].op = "call" /\ fLog[1].queried /\ fLog[1].tokenA = 1 /\ fLog[1].tokenB = 2
    /\ fLog[2].op = "return" /\ fLog[2].result = PairContract("testnet", 1, 2)
    /\ fLog[3].op = "call" /\ ~fLog[3].queried /\ fLog[3].tokenA = 2 /\ fLog[3].tokenB = 1
    /\ fLog[4].op = "return" /\ fLog[4].result = PairContract("testnet", 1, 2)

(* The network the client was on before event i *)
NetworkBefore(i) ==
    LET earlier == { k \in 1..(i - 1) : fLog[k].op = "setNetwork" }
    IN  IF earlier = {} THEN "testnet"
        ELSE fLog[CHOOSE k \in earlier : \A l \in earlier : l <= k].network

(* C30 as stated: setNetwork invalidates the cache and the factory and     *)
(* router singletons: the first getPairAddress of a pair after a network   *)
(* switch queries the factory of the new network, also for pairs cached or *)
(* pre-loaded before the switch (a pair pre-loaded after the switch is     *)
(* left aside).                                                            *)
C30_FirstLookupQueriesNewNetwork ==
    /\ fFactory \in {"", fNetwork}
    /\ fRouter \in {"", fNetwork}
    /\ \A i, j \in Events :
          /\ i < j
          /\ fLog[i].op = "setNetwork"
          /\ fLog[i].network # NetworkBefore(i)
          /\ fLog[j].op = "call"
          /\ NoOpBetween(i, j, {"setNetwork"})
          /\ \A k \in (i + 1)..(j - 1) :
                ~(SamePair(fLog[k], fLog[j]) /\ fLog[k].op \in {"call", "preLoadPairs"})
          => fLog[j].queried /\ fLog[j].network = fLog[i].network

----------------------------------------------------------------------------
(* Claims about the token graph (specification Spec) *)

(* The pools whose token pair was read *)
ReadablePools == (1..Len(pools)) \ rReq.unreadable

(* The route selector got as far as building the graph *)
GraphBuilt ==
    /\ rPc # "idle"
    /\ rResult \notin {RThrow("ValidationError"), RThrow("getAllPairs failed")}

(* C31: a pool whose token pair cannot be read is left out of the graph    *)
(* and the failure is not propagated: the graph holds exactly the edges of *)
(* the pools whose tokens were read, and the candidate paths are those     *)
(* found on that graph.                                                    *)
C31_UnreadablePoolLeftOut ==
    /\ rPc # "idle" /\ rReq.tradeType = "EXACT_IN" /\ rReq.unreadable # {}
          => rResult.kind # "throw"
    /\ GraphBuilt =>
          /\ \A a, b \in Tokens :
                Includes(rGraph[a], b) <=>
                    \E i \in ReadablePools :
                        \/ pools[i].token0 = a /\ pools[i].token1 = b
                        \/ pools[i].token0 = b /\ pools[i].token1 = a
          /\ rPaths = findAllPaths(rReq.tokenIn, rReq.tokenOut, rGraph, ROUTER_MAX_HOPS)

(* One pool's read failed, another pool's edge is in the graph and a path  *)
(* was found over it                                                       *)
C31_Witness ==
    /\ GraphBuilt
    /\ rReq.unreadable # {}
    /\ \E i \in rReq.unreadable :
          ~Includes(rGraph[pools[i].token0], pools[i].token1)
    /\ Len(rPaths) > 0

----------------------------------------------------------------------------
(* Claims about the price impact of a quote (specification SpecQuote) *)

(* The reserves of the quoted pool, oriented to the trade direction *)
QuotedReserveIn ==
    LET pair == pools[getPairAddress(qReq.tokenIn, qReq.tokenOut)]
    IN  IF pair.token0 = qReq.tokenIn THEN pair.reserve0 ELSE pair.reserve1

QuotedReserveOut ==
    LET pair == pools[getPairAddress(qReq.tokenIn, qReq.tokenOut)]
    IN  IF pair.token0 = qReq.tokenIn THEN pair.reserve1 ELSE pair.reserve0

(* C32: the price impact of a quote is                                     *)
(* floor((idealOut - amountOut) * 10000 / idealOut) with                   *)
(* idealOut = floor(amountIn * reserveOut / reserveIn), and 10000 when a   *)
(* reserve is zero or idealOut is zero.                                    *)
C32_PriceImpact ==
    qPc = "done" /\ qRes.ok =>
        LET q == qRes.quote
            idealOut == IF QuotedReserveIn = 0 THEN 0
                        ELSE (q.amountIn * QuotedReserveOut) \div QuotedReserveIn
        IN  q.priceImpactBps =
                IF QuotedReserveIn = 0 \/ QuotedReserveOut = 0 \/ idealOut = 0
                THEN 10000
                ELSE ((idealOut - q.amountOut) * 10000) \div idealOut

(* A quote too small for any ideal output, at the maximum impact *)
C32_Witness ==
    /\ qPc = "done"
    /\ qRes.ok
    /\ qRes.quote.amountIn = 1
    /\ QuotedReserveIn = 100
    /\ QuotedReserveOut = 10
    /\ qRes.quote.priceImpactBps = 10000

----------------------------------------------------------------------------
(* Claims about the order of the substring rules (specification SpecErrors) *)

(* The kinds of the substring rules in the order the claim gives them *)
RuleOrder ==
    << "DeadlineError", "SlippageError", "InsufficientLiquidityError",
       "CircuitBreakerError", "NetworkError", "RpcError", "SignerError",
       "FlashLoanError", "ValidationError", "PairNotFoundError",
       "SimulationError", "TransactionError" >>

(* The substrings of each rule: exact ones and ones matched in lower case *)
RuleExactTerms ==
    << {"EXPIRED"}, {"INSUFFICIENT_OUTPUT"}, {"INSUFFICIENT_LIQUIDITY"}, {},
       {"ECONNRESET", "ETIMEDOUT", "ENOTFOUND", "ENETUNREACH"}, {"RPC", "429"},
       {"NO_SIGNER"}, {}, {}, {"PAIR_NOT_FOUND"}, {"SIMULATION_FAILED"},
       {"TX_FAILED"} >>

RuleLowerTerms ==
    << {"deadline"}, {"slippage"}, {"liquidity"}, {"circuit", "paused"}, {},
       {"rate limit", "too many requests"}, {"signing", "signer", "private key"},
       {"flash loan", "flash_loan", "reentrancy", "callback"},
       {"validation", "required", "must be"}, {"pair not found", "no pair"},
       {"simulation"}, {"transaction", "tx failed"} >>

RuleMatches(k, message) ==
    \/ \E term \in RuleExactTerms[k] : MsgIncludes(message, term)
    \/ \E term \in RuleLowerTerms[k] : NormIncludes(message, term)
    \/ /\ RuleOrder[k] = "ValidationError"
       /\ NormIncludes(message, "invalid")
       /\ ~NormIncludes(message, "active")

MatchingRules(message) == { k \in 1..Len(RuleOrder) : RuleMatches(k, message) }

(* A raw value whose message carries no contract code of the table *)
RawWithoutMappedCode(err) ==
    /\ err.shape \in {"string", "Error"}
    /\ LET code == extractErrorCode(err)
       IN  code = 0 \/ ContractErrorClass(code) = ""

(* C33: for a raw message with no mapped contract code that matches        *)
(* several substring rules, mapError returns the kind of the earliest      *)
(* matching rule in the order deadline, slippage, liquidity, circuit,      *)
(* connection, rate-limit, signer, flash-loan, validation, pair-not-found, *)
(* simulation, transaction.                                                *)
C33_EarliestRuleWins ==
    ePc = "done" /\ RawWithoutMappedCode(eErr) =>
        LET matching == MatchingRules(eErr.message)
        IN  Cardinality(matching) >= 2 =>
                \E k \in matching :
                    /\ \A l \in matching : k <= l
                    /\ eRes.class = RuleOrder[k]

(* A message of the signer rule and the flash-loan rule, flash-loan word   *)
(* first, classified as a signer error                                     *)
C33_Witness ==
    /\ ePc = "done"
    /\ eErr = RawError("string", <<"callback failed", "signer missing">>)
    /\ MatchingRules(eErr.message) = {7, 8}
    /\ eRes.class = "SignerError"

----------------------------------------------------------------------------
(* Claims about Fraction (specification SpecFraction) *)

Arithmetic == {"add", "sub", "multiply", "divide", "invert"}

(* C34 as stated: every Fraction produced by add, sub, multiply, divide or *)
(* invert from Fractions with non-zero denominators has a non-zero         *)
(* denominator; dividing by a zero-valued fraction or inverting zero fails *)
(* instead of producing a Fraction with denominator 0.                     *)
C34_DenominatorNeverZero ==
    /\ xPc = "done"
    /\ xOp \in Arithmetic
    /\ xThis.denominator # 0
    /\ xOther.denominator # 0
    => xRes.denominator # 0

RECURSIVE Exponent(_, _)
(* The e with 10^e <= n/d < 10^(e+1), for n, d > 0 *)
Exponent(n, d) ==
    IF n < d THEN Exponent(n * 10, d) - 1
    ELSE IF n < 10 * d THEN 0
    ELSE Exponent(n, d * 10) + 1

(* n/d rounded half up to an integer, for n >= 0 and d > 0 *)
HalfUp(n, d) == (2 * n + d) \div (2 * d)

(* |value| / 10^(e - digits + 1) rounded half up, with that power of ten:  *)
(* the value rounded to digits significant digits is mantissa * 10^exp.    *)
RoundedTo(value, digits) ==
    LET n == Abs(value.numerator)
        d == Abs(value.denominator)
        exp == Exponent(n, d) - digits + 1
    IN  [mantissa |-> IF exp <= 0 THEN HalfUp(n * Pow(10, -exp), d)
                      ELSE HalfUp(n, d * Pow(10, exp)),
         exp |-> exp]

RECURSIVE Normalised(_)
(* The same number with no trailing zero in the mantissa *)
Normalised(x) ==
    IF x.mantissa # 0 /\ x.mantissa % 10 = 0
    THEN Normalised([mantissa |-> x.mantissa \div 10, exp |-> x.exp + 1])
    ELSE x

DigitValue(char) == CHOOSE v \in 0..9 : DigitChars[v + 1] = char

RECURSIVE ParseDigits(_)
ParseDigits(str) ==
    IF str = <<>> THEN 0
    ELSE 10 * ParseDigits(SubSeq(str, 1, Len(str) - 1)) + DigitValue(str[Len(str)])

(* The number a decimal string without sign denotes *)
ParseDecimal(str) ==
    LET points == { i \in 1..Len(str) : str[i] = "." }
    IN  IF points = {} THEN [mantissa |-> ParseDigits(str), exp |-> 0]
        ELSE LET p == CHOOSE i \in points : TRUE
             IN  [mantissa |-> ParseDigits(SubSeq(str, 1, p - 1)
                                          \o SubSeq(str, p + 1, Len(str))),
                  exp |-> -(Len(str) - p)]

Unsigned(str) == IF str # <<>> /\ str[1] = "-" THEN Tail(str) ELSE str

IsDecimalString(str) ==
    /\ str # <<>>
    /\ \A i \in 1..Len(str) :
          \E v \in 0..9 : DigitChars[v + 1] = str[i] \/ str[i] = "."
    /\ Cardinality({ i \in 1..Len(str) : str[i] = "." }) <= 1
    /\ str[1] # "." /\ str[Len(str)] # "."

HalfUpCall == xPc = "done" /\ xOp = "toSignificant" /\ xRounding = ROUND_HALF_UP

(* C35: toSignificant(d) with round-half-up renders the value rounded half *)
(* up to d significant digits, also when rounding carries across a power   *)
(* of ten: 999/10 at 2 digits gives "100", 999/10000 gives "0.10" and      *)
(* 999/100000 gives "0.010".                                               *)
C35_RoundedToSignificantDigits ==
    HalfUpCall =>
        /\ IsDecimalString(Unsigned(xStr))
        /\ (xStr[1] = "-") <=> (xThis.numerator < 0)
        /\ Normalised(ParseDecimal(Unsigned(xStr)))
              = Normalised(RoundedTo(xThis, xDigits))
        /\ xThis = Fraction(999, 10) /\ xDigits = 2 => xStr = <<"1", "0", "0">>
        /\ xThis = Fraction(999, 10000) /\ xDigits = 2 => xStr = <<"0", ".", "1", "0">>
        /\ xThis = Fraction(999, 100000) /\ xDigits = 2
              => xStr = <<"0", ".", "0", "1", "0">>

(* 999/10000 at two digits: the rounding carries from 0.0999 to 0.10 *)
C35_Witness ==
    /\ HalfUpCall
    /\ xThis = Fraction(999, 10000)
    /\ xDigits = 2
    /\ RoundedTo(xThis, xDigits).mantissa = 100
    /\ xStr = <<"0", ".", "1", "0">>

----------------------------------------------------------------------------
(* Claims about lookups in flight across a network switch (SpecCache) *)

(* The pair contracts of a network *)
ContractsOf(network) == { PairContract(network, k[1], k[2]) : k \in ChainPairs }

(* C36 as stated: under any interleaving of getPairAddress calls with      *)
(* setNetwork, once setNetwork has returned no pair address obtained from  *)
(* the previous network's factory is stored in or served from the cache:   *)
(* every address a lookup stores or is answered with is a pair contract of *)
(* the network selected at that moment (or a pre-loaded address).          *)
C36_NoAddressOfPreviousNetwork ==
    \A j \in 1..Len(fLog) :
        /\ fLog[j].op = "return"
        /\ fLog[j].result \notin {NullAddress} \cup PreloadedAddresses
        => fLog[j].result \in ContractsOf(NetworkBefore(j))

----------------------------------------------------------------------------
(* Claims about submissions across network switches (SpecSession) *)

SessionEvents == 1..Len(nLog)

(* The network selected when entry j was logged *)
SelectedBefore(j) ==
    LET earlier == { k \in 1..(j - 1) : nLog[k].op = "setNetwork" }
    IN  IF earlier = {} THEN "testnet"
        ELSE nLog[CHOOSE k \in earlier : \A l \in earlier : l <= k].server

(* Entry j belongs to a submission that started after a setNetwork, with   *)
(* no setNetwork since its start                                           *)
SubmittedAfterSwitch(j) ==
    \E s \in 1..(j - 1) :
        /\ nLog[s].op = "submit"
        /\ nLog[s].id = nLog[j].id
        /\ \E k \in 1..(s - 1) : nLog[k].op = "setNetwork"
        /\ \A k \in s..j : nLog[k].op # "setNetwork"

(* C37 as stated: after setNetwork, every status probe issued by a later   *)
(* submitTransaction goes to the server of the newly selected network, the *)
(* server used for its simulation and broadcast, also when the poller had  *)
(* been used before the switch.                                            *)
C37_ProbesGoToSelectedNetwork ==
    \A j \in SessionEvents :
        nLog[j].op = "getTransaction" /\ SubmittedAfterSwitch(j) =>
            /\ nLog[j].server = SelectedBefore(j)
            /\ \A c \in 1..(j - 1) :
                  /\ nLog[c].id = nLog[j].id
                  /\ nLog[c].op \in {"simulateTransaction", "sendTransaction"}
                  => nLog[c].server = nLog[j].server

(* The answer of sendTransaction to submission id, as a set of entries *)
SentOf(id) == { k \in SessionEvents : nLog[k].op = "sent" /\ nLog[k].id = id }

(* C39: submitTransaction reports success only if a status probe for the   *)
(* hash returned by sendTransaction reported SUCCESS; the txHash of the    *)
(* result is that hash and the ledger is the one that probe reported; and  *)
(* every result produced after a broadcast (success, TX_FAILED or          *)
(* TX_TIMEOUT) carries that hash.                                          *)
C39_ResultCarriesPolledHash ==
    \A r \in SessionEvents :
        nLog[r].op = "result" =>
            /\ nLog[r].status = "success" =>
                  \E s \in SentOf(nLog[r].id), q, a \in 1..(r - 1) :
                      /\ s < q /\ q < a
                      /\ nLog[s].status # "ERROR"
                      /\ nLog[q].op = "getTransaction" /\ nLog[q].id = nLog[r].id
                      /\ nLog[q].hash = nLog[s].hash
                      /\ nLog[a].op = "status" /\ nLog[a].id = nLog[r].id
                      /\ nLog[a].status = "SUCCESS"
                      /\ \A k \in (q + 1)..(a - 1) : nLog[k].op = "setNetwork"
                      /\ nLog[r].hash = nLog[s].hash
                      /\ nLog[r].dataTxHash = nLog[s].hash
                      /\ nLog[r].ledger =
                            IF nLog[a].ledger = NoLedger THEN 0 ELSE nLog[a].ledger
            /\ nLog[r].status \in {"success", "TX_FAILED", "TX_TIMEOUT"} =>
                  \E s \in SentOf(nLog[r].id) :
                      /\ s < r
                      /\ nLog[s].status # "ERROR"
                      /\ nLog[r].hash = nLog[s].hash

(* A success for hash 2 at ledger 6, confirmed by the second probe *)
C39_Witness ==
    \E r \in SessionEvents :
        /\ nLog[r].op = "result" /\ nLog[r].status = "success"
        /\ nLog[r].hash = 2 /\ nLog[r].ledger = 6
        /\ \E s \in SentOf(nLog[r].id) : nLog[s].hash = 2
        /\ \E a \in 1..(r - 1) :
              /\ nLog[a].op = "status" /\ nLog[a].id = nLog[r].id
              /\ nLog[a].status = "NOT_FOUND"

----------------------------------------------------------------------------
(* Claims about the failures of getAmountIn (specification SpecMath) *)

PreconditionErrors ==
    { Err("Insufficient output amount"), Err("Insufficient liquidity"),
      Err("Insufficient reserve for output") }

(* C38 as stated: for every feeBps in 0..10000, positive reserves and      *)
(* 0 < amountOut < reserveOut, getAmountIn returns a positive input        *)
(* amount; its only failure outcomes are the three precondition errors.    *)
C38_OnlyPreconditionFailures ==
    mFn = "getAmountIn" =>
        /\ ValidInArgs => mRes.ok /\ mRes.val > 0
        /\ ~mRes.ok => mRes \in PreconditionErrors

----------------------------------------------------------------------------
(* Claims about cached null results (specification SpecCache) *)

(* Event k belongs to a lookup made with bypassCache *)
OfBypassLookup(k) ==
    /\ fLog[k].op \in {"call", "return", "reject"}
    /\ \E c \in Events :
          fLog[c].op = "call" /\ fLog[c].id = fLog[k].id /\ fLog[c].bypassCache

(* None of the events the claim lists lies strictly between i and j:       *)
(* clearCache, a network switch, a pre-load of the pair of e, or a         *)
(* bypassCache lookup of that pair                                         *)
NoListedEventBetween(i, j, e) ==
    \A k \in (i + 1)..(j - 1) :
        /\ fLog[k].op \notin {"clearCache", "setNetwork"}
        /\ ~(fLog[k].op = "preLoadPairs" /\ SamePair(fLog[k], e))
        /\ ~(OfBypassLookup(k) /\ SamePair(fLog[k], e))

ResolvedToNull(i) == fLog[i].op = "return" /\ fLog[i].result = NullAddress

LaterPlainLookup(i, j) ==
    /\ i < j
    /\ fLog[j].op = "call"
    /\ SamePair(fLog[i], fLog[j])
    /\ ~fLog[j].bypassCache

====
